---- MODULE Spec2Model ----
(***************************************************************************)
(* Random-Arena-Games: the feasibility searches on energy and parity       *)
(* graphs, and the drivers that enumerate or sample ownership assignments  *)
(* and fold the solver's verdicts into (total_aggregated, games_solved).   *)
(*                                                                         *)
(* Vertex "v<i>" of a DOT file and node id i of a JSON game are both the   *)
(* natural number i; a Python dict is a TLA+ function whose DOMAIN is the  *)
(* dict's key set; a Python list is a sequence; a bit string is a sequence *)
(* over {0, 1}, character bit_string[i] of Python being element i + 1.     *)
(***************************************************************************)
EXTENDS Integers, Sequences, FiniteSets, TLC

\* ------------------------------------------------------------------ bounds
\* vertex ids of the graphs handed to the searches: 0 .. NumVertices - 1
NumVertices == 2
\* at most this many edges in a graph handed to the searches
MaxEdges == 3
\* priorities of parity graphs: 0 .. MaxPriority
MaxPriority == 2

\* edge effects of the energy graphs handed to the searches
Effects == {-1, 0, 1, 2}
\* ceilings handed to the energy searches
EnergyLimits == {1, 3}

\* ------------------------------------------------------------------ helpers
Range(s) == {s[i] : i \in 1..Len(s)}

Min(a, b) == IF a < b THEN a ELSE b

\* Python: x in lst
InList(x, lst) == \E i \in 1..Len(lst) : lst[i] = x

\* Python: lst.index(x), as a 1-based position (x is in lst)
ListIndex(lst, x) == CHOOSE i \in 1..Len(lst) : lst[i] = x /\ \A j \in 1..(i - 1) : lst[j] # x

\* Python: lst[:-1]
ButLast(lst) == SubSeq(lst, 1, Len(lst) - 1)

\* Python: d.get(v, []) on the adjacency dict
edges_get(edges, v) == IF v \in DOMAIN edges THEN edges[v] ELSE <<>>

\* a mutant of weights_get: the key is looked up as (target, source)
weights_get_swapped(weights, u, v) == IF <<v, u>> \in DOMAIN weights THEN weights[<<v, u>>] ELSE 0

\* Python: weights.get((u, v), 0)
weights_get(weights, u, v) == IF <<u, v>> \in DOMAIN weights THEN weights[<<u, v>>] ELSE 0

\* ------------------------------------------------------------------ find_nonnegative_lasso
\* a mutant of on_path_before: the test looks at the whole path, last entry included
on_path_whole(current, path) == InList(current, path)

\* Python: current in path[:-1]
on_path_before(current, path) == InList(current, ButLast(path))

\* The re-walk of the cycle: for i in range(len(cycle) - 1), summing the edge
\* effects from 0, stopping at the first negative prefix sum.
RECURSIVE cycle_walk(_, _, _, _, _)
cycle_walk(weights, cycle, i, cycle_energy, total_weight) ==
    IF i > Len(cycle) - 1
    THEN [valid |-> TRUE, total_weight |-> total_weight]
    ELSE LET w == weights_get(weights, cycle[i], cycle[i + 1])
         IN  IF cycle_energy + w < 0
             THEN [valid |-> FALSE, total_weight |-> total_weight]
             ELSE cycle_walk(weights, cycle, i + 1, cycle_energy + w, total_weight + w)

\* valid and total_weight >= 0, for the cycle closed by the revisit of current
cycle_accepted(weights, current, path) ==
    LET cycle == SubSeq(path, ListIndex(path, current), Len(path))
        r == cycle_walk(weights, cycle, 1, 0, 0)
    IN  r.valid /\ r.total_weight >= 0

\* The for loop over the neighbours of the popped frame: every admissible
\* (neighbour, new_energy) not seen before is marked and pushed.
RECURSIVE lasso_push(_, _, _, _, _, _, _)
lasso_push(weights, energy_limit, frame, nbrs, i, stack, visited_states) ==
    IF i > Len(nbrs)
    THEN [stack |-> stack, visited_states |-> visited_states]
    ELSE LET neighbor == nbrs[i]
             new_energy == frame.energy + weights_get(weights, frame.current, neighbor)
             state == <<neighbor, new_energy>>
         IN  IF new_energy >= 0 /\ state \notin visited_states /\ new_energy <= energy_limit
             THEN lasso_push(weights, energy_limit, frame, nbrs, i + 1,
                             Append(stack, [current |-> neighbor,
                                            path |-> Append(frame.path, neighbor),
                                            energy |-> new_energy]),
                             visited_states \cup {state})
             ELSE lasso_push(weights, energy_limit, frame, nbrs, i + 1, stack, visited_states)

\* The while loop: pop the last frame, drop it if its energy is negative,
\* test the cycle if it revisits its own path, expand it otherwise.
RECURSIVE lasso_loop(_, _, _, _, _)
lasso_loop(edges, weights, energy_limit, stack, visited_states) ==
    IF stack = <<>>
    THEN FALSE
    ELSE LET frame == stack[Len(stack)]
             rest == ButLast(stack)
         IN  IF frame.energy < 0
             THEN lasso_loop(edges, weights, energy_limit, rest, visited_states)
             ELSE IF on_path_before(frame.current, frame.path)
             THEN IF cycle_accepted(weights, frame.current, frame.path)
                  THEN TRUE
                  ELSE lasso_loop(edges, weights, energy_limit, rest, visited_states)
             ELSE LET r == lasso_push(weights, energy_limit, frame,
                                      edges_get(edges, frame.current), 1, rest, visited_states)
                  IN  lasso_loop(edges, weights, energy_limit, r.stack, r.visited_states)

find_nonnegative_lasso(edges, weights, start, energy_limit) ==
    lasso_loop(edges, weights, energy_limit,
               <<[current |-> start, path |-> <<start>>, energy |-> 0]>>, {})

\* ------------------------------------------------------------------ exists_negative_energy_path
\* a mutant of within_limit: a state whose energy equals the ceiling is not explored
within_limit_strict(new_energy, energy_limit) == new_energy < energy_limit

\* a mutant of within_limit: states up to twice the ceiling are explored
within_limit_twice(new_energy, energy_limit) == new_energy <= 2 * energy_limit

\* Python: new_energy <= energy_limit
within_limit(new_energy, energy_limit) == new_energy <= energy_limit

\* The for loop over the neighbours of a popped state: found as soon as one
\* edge takes the energy below 0, else the states within the ceiling are pushed.
RECURSIVE neg_push(_, _, _, _, _, _, _)
neg_push(weights, energy_limit, current, energy, nbrs, i, stack) ==
    IF i > Len(nbrs)
    THEN [found |-> FALSE, stack |-> stack]
    ELSE LET neighbor == nbrs[i]
             new_energy == energy + weights_get(weights, current, neighbor)
         IN  IF new_energy < 0
             THEN [found |-> TRUE, stack |-> stack]
             ELSE IF within_limit(new_energy, energy_limit)
             THEN neg_push(weights, energy_limit, current, energy, nbrs, i + 1,
                           Append(stack, <<neighbor, new_energy>>))
             ELSE neg_push(weights, energy_limit, current, energy, nbrs, i + 1, stack)

RECURSIVE neg_loop(_, _, _, _, _)
neg_loop(edges, weights, energy_limit, stack, visited_states) ==
    IF stack = <<>>
    THEN FALSE
    ELSE LET top == stack[Len(stack)]
             rest == ButLast(stack)
         IN  IF top \in visited_states
             THEN neg_loop(edges, weights, energy_limit, rest, visited_states)
             ELSE LET r == neg_push(weights, energy_limit, top[1], top[2],
                                    edges_get(edges, top[1]), 1, rest)
                  IN  IF r.found
                      THEN TRUE
                      ELSE neg_loop(edges, weights, energy_limit, r.stack,
                                    visited_states \cup {top})

exists_negative_energy_path(edges, weights, start, energy_limit) ==
    neg_loop(edges, weights, energy_limit, << <<start, 0>> >>, {})

\* ------------------------------------------------------------------ find_lasso_highest_priority
\* what a call returns: a value, or the KeyError it raised on vertices[v] for an
\* undeclared v
Returned(value) == [raised |-> FALSE, value |-> value]
KeyError == [raised |-> TRUE, value |-> FALSE]

\* Python: max(vertices[v] for v in cycle), over declared vertices
max_priority(vertices, cycle) ==
    CHOOSE m \in {vertices[cycle[i]] : i \in 1..Len(cycle)} :
        \A i \in 1..Len(cycle) : vertices[cycle[i]] <= m

\* Python: stack.append((neighbor, new_path)) for neighbor in nbrs
push_all(stack, nbrs, new_path) ==
    stack \o [i \in 1..Len(nbrs) |-> [current |-> nbrs[i], path |-> new_path]]

\* a mutant of parity_matches: the parity asked for is ignored, even is tested
parity_matches_even(max_prio, parity) == max_prio % 2 = 0

\* Python: max_priority % 2 == parity
parity_matches(max_prio, parity) == max_prio % 2 = parity

RECURSIVE parity_loop(_, _, _, _)
parity_loop(vertices, edges, parity, stack) ==
    IF stack = <<>>
    THEN Returned(FALSE)
    ELSE LET frame == stack[Len(stack)]
             rest == ButLast(stack)
         IN  IF InList(frame.current, frame.path)
             THEN LET cycle == Append(SubSeq(frame.path, ListIndex(frame.path, frame.current),
                                             Len(frame.path)), frame.current)
                  IN  IF \E i \in 1..Len(cycle) : cycle[i] \notin DOMAIN vertices
                      THEN KeyError
                      ELSE IF parity_matches(max_priority(vertices, cycle), parity)
                      THEN Returned(TRUE)
                      ELSE parity_loop(vertices, edges, parity, rest)
             ELSE parity_loop(vertices, edges, parity,
                              push_all(rest, edges_get(edges, frame.current),
                                       Append(frame.path, frame.current)))

\* "v0" is vertex 0
find_lasso_highest_priority(vertices, edges, parity) ==
    parity_loop(vertices, edges, parity, <<[current |-> 0, path |-> <<>>]>>)

v0_lasso_even(vertices, edges) == find_lasso_highest_priority(vertices, edges, 0)

v0_lasso_odd(vertices, edges) == find_lasso_highest_priority(vertices, edges, 1)

\* ------------------------------------------------------------------ v0_reaches_only_priority0
\* a mutant of vertices_get: an undeclared vertex counts as priority 0
vertices_get_zero(vertices, v) == IF v \in DOMAIN vertices THEN vertices[v] ELSE 0

\* Python: vertices.get(v, -1)
vertices_get(vertices, v) == IF v \in DOMAIN vertices THEN vertices[v] ELSE -1

\* the while loop over the deque: popleft, skip the visited, fail on a priority
\* other than 0, append every neighbour
RECURSIVE reach_loop(_, _, _, _)
reach_loop(vertices, edges, queue, visited) ==
    IF queue = <<>>
    THEN TRUE
    ELSE LET current == Head(queue)
             rest == Tail(queue)
         IN  IF current \in visited
             THEN reach_loop(vertices, edges, rest, visited)
             ELSE IF vertices_get(vertices, current) # 0
             THEN FALSE
             ELSE reach_loop(vertices, edges, rest \o edges_get(edges, current),
                             visited \cup {current})

v0_reaches_only_priority0(vertices, edges) ==
    IF 0 \notin DOMAIN vertices
    THEN FALSE
    ELSE reach_loop(vertices, edges, <<0>>, {})

\* ------------------------------------------------------------------ has_full_priority0_lasso
RECURSIVE p0_lasso_loop(_, _, _)
p0_lasso_loop(vertices, edges, stack) ==
    IF stack = <<>>
    THEN FALSE
    ELSE LET frame == stack[Len(stack)]
             rest == ButLast(stack)
         IN  IF vertices_get(vertices, frame.current) # 0
             THEN p0_lasso_loop(vertices, edges, rest)
             ELSE IF InList(frame.current, frame.path)
             THEN TRUE
             ELSE p0_lasso_loop(vertices, edges,
                                push_all(rest, edges_get(edges, frame.current),
                                         Append(frame.path, frame.current)))

has_full_priority0_lasso(vertices, edges) ==
    IF 0 \notin DOMAIN vertices \/ vertices[0] # 0
    THEN FALSE
    ELSE p0_lasso_loop(vertices, edges, <<[current |-> 0, path |-> <<>>]>>)

\* ------------------------------------------------------------------ what the energy searches decide
\* no ceiling on the cumulative energy
Unbounded == 0 - 1

InBand(energy, limit) == energy >= 0 /\ (limit = Unbounded \/ energy <= limit)

\* one more vertex, not yet on the path, with the cumulative energy in the band
PathExtensions(edges, weights, limit, p) ==
    LET last == p.path[Len(p.path)]
    IN  {[path |-> Append(p.path, u), energy |-> p.energy + weights_get(weights, last, u)] :
            u \in {x \in Range(edges_get(edges, last)) :
                      /\ x \notin Range(p.path)
                      /\ InBand(p.energy + weights_get(weights, last, x), limit)}}

\* the paths without a repeated vertex whose cumulative energies all lie in the band
RECURSIVE BandPaths(_, _, _, _)
BandPaths(edges, weights, limit, S) ==
    LET T == S \cup UNION {PathExtensions(edges, weights, limit, p) : p \in S}
    IN  IF T = S THEN S ELSE BandPaths(edges, weights, limit, T)

PathsFrom(edges, weights, start, limit) ==
    BandPaths(edges, weights, limit, {[path |-> <<start>>, energy |-> 0]})

\* the sum of the first k edge effects along the walk
RECURSIVE PrefixSum(_, _, _)
PrefixSum(weights, walk, k) ==
    IF k = 0 THEN 0
    ELSE PrefixSum(weights, walk, k - 1) + weights_get(weights, walk[k], walk[k + 1])

\* the walk, re-summed from 0, never dips below 0 (its total included)
NonnegativeCycle(weights, walk) == \A k \in 1..(Len(walk) - 1) : PrefixSum(weights, walk, k) >= 0

\* the edges that close a path of the band onto one of its own vertices, the
\* energy after the closing edge still in the band
Revisits(edges, weights, start, limit) ==
    UNION {{[path |-> p.path, back |-> u] :
              u \in {x \in Range(edges_get(edges, p.path[Len(p.path)])) :
                        /\ x \in Range(p.path)
                        /\ InBand(p.energy + weights_get(weights, p.path[Len(p.path)], x), limit)}} :
           p \in PathsFrom(edges, weights, start, limit)}

ClosedCycle(r) == Append(SubSeq(r.path, ListIndex(r.path, r.back), Len(r.path)), r.back)

\* a path from start within [0, limit] that ends by revisiting one of its vertices,
\* the revisited cycle nonnegative when re-summed from 0
LassoExists(edges, weights, start, limit) ==
    \E r \in Revisits(edges, weights, start, limit) : NonnegativeCycle(weights, ClosedCycle(r))

\* a path from start that keeps the energy nonnegative and returns to a vertex of its own
NonnegativeRevisitExists(edges, weights, start) ==
    Revisits(edges, weights, start, Unbounded) # {}

\* the (vertex, energy) states reachable from start with every energy in [0, limit]
RECURSIVE BandStates(_, _, _, _)
BandStates(edges, weights, limit, S) ==
    LET T == S \cup UNION {{<<u, st[2] + weights_get(weights, st[1], u)>> :
                              u \in {x \in Range(edges_get(edges, st[1])) :
                                        InBand(st[2] + weights_get(weights, st[1], x), limit)}} :
                           st \in S}
    IN  IF T = S THEN S ELSE BandStates(edges, weights, limit, T)

\* a path within [0, limit] followed by one edge that takes the energy below 0
NegativeStepExists(edges, weights, start, limit) ==
    \E st \in BandStates(edges, weights, limit, {<<start, 0>>}) :
        \E u \in Range(edges_get(edges, st[1])) : st[2] + weights_get(weights, st[1], u) < 0

\* the 2-vertex game v0 -> v1 of effect -1, v1 -> v0 of effect +2
Game5Edges == (0 :> <<1>>) @@ (1 :> <<0>>)
Game5Weights == (<<0, 1>> :> -1) @@ (<<1, 0>> :> 2)
\* ------------------------------------------------------------------ what the parity searches decide
Successors(edges, S) == UNION {Range(edges_get(edges, u)) : u \in S}

\* the vertices of Allowed reachable from the set S by edges that stay in Allowed
RECURSIVE ReachWithin(_, _, _)
ReachWithin(edges, Allowed, S) ==
    LET T == S \cup (Successors(edges, S) \cap Allowed)
    IN  IF T = S THEN S ELSE ReachWithin(edges, Allowed, T)

\* every vertex an edge mentions, and every vertex declared
Mentioned(vertices, edges) ==
    DOMAIN vertices \cup DOMAIN edges \cup Successors(edges, DOMAIN edges)

Reachable(vertices, edges, start) ==
    ReachWithin(edges, Mentioned(vertices, edges) \cup {start}, {start})

\* t lies on a cycle all of whose vertices are in Allowed
OnCycleWithin(edges, Allowed, t) ==
    /\ t \in Allowed
    /\ t \in ReachWithin(edges, Allowed, Successors(edges, {t}) \cap Allowed)

\* every vertex an edge mentions is declared
WellFormed(vertices, edges) == Mentioned(vertices, edges) \subseteq DOMAIN vertices

\* some simple cycle reachable from v0 has a highest priority of parity p: its
\* top vertex t is reachable and lies on a cycle of vertices no higher than t
CycleOfParityExists(vertices, edges, p) ==
    \E t \in Reachable(vertices, edges, 0) \cap DOMAIN vertices :
        /\ vertices[t] % 2 = p
        /\ OnCycleWithin(edges, {v \in DOMAIN vertices : vertices[v] <= vertices[t]}, t)

\* v0 is declared with priority 0 and so is every vertex reachable from it
OnlyPriority0Reachable(vertices, edges) ==
    /\ 0 \in DOMAIN vertices
    /\ \A u \in Reachable(vertices, edges, 0) : u \in DOMAIN vertices /\ vertices[u] = 0

\* v0 has priority 0 and reaches, through vertices of priority 0, a cycle of them
Priority0LassoExists(vertices, edges) ==
    LET Zero == {v \in DOMAIN vertices : vertices[v] = 0}
    IN  /\ 0 \in Zero
        /\ \E t \in ReachWithin(edges, Zero, {0}) : OnCycleWithin(edges, Zero, t)

\* ------------------------------------------------------------------ read_energy_game
\* Python: e.get("effect", 0)
effect_of(e) == IF "effect" \in DOMAIN e THEN e.effect ELSE 0

\* Python: d.setdefault(src, []).append(tgt)
setdefault_append(d, src, tgt) ==
    IF src \in DOMAIN d
    THEN [d EXCEPT ![src] = Append(@, tgt)]
    ELSE (src :> <<tgt>>) @@ d

\* Python: d[key] = value
dict_set(d, key, value) == (key :> value) @@ d

\* the for loop over game_data["edges"]
RECURSIVE read_edges(_, _, _, _)
read_edges(edge_list, i, edges, weights) ==
    IF i > Len(edge_list)
    THEN [edges |-> edges, weights |-> weights]
    ELSE LET e == edge_list[i]
         IN  read_edges(edge_list, i + 1,
                        setdefault_append(edges, e.source, e.target),
                        dict_set(weights, <<e.source, e.target>>, effect_of(e)))

read_energy_game(json_file) ==
    LET game_data == json_file
        r == read_edges(game_data.edges, 1, <<>>, <<>>)
    IN  [vertices |-> [id \in {game_data.nodes[i].id : i \in 1..Len(game_data.nodes)} |->
                         LET last == CHOOSE i \in 1..Len(game_data.nodes) :
                                        /\ game_data.nodes[i].id = id
                                        /\ \A j \in (i + 1)..Len(game_data.nodes) :
                                              game_data.nodes[j].id # id
                         IN  game_data.nodes[last].owner],
         edges |-> r.edges,
         weights |-> r.weights,
         game_data |-> game_data]

\* ------------------------------------------------------------------ read_graph
\* the for loop over the lines of the DOT file: a vertex declaration sets the
\* priority and makes sure the vertex has an adjacency list, an edge line
\* appends to the source's list, any other line is skipped
RECURSIVE read_lines(_, _, _, _)
read_lines(lines, i, vertices, edges) ==
    IF i > Len(lines)
    THEN [vertices |-> vertices, edges |-> edges]
    ELSE LET line == lines[i]
         IN  IF line.kind = "vertex"
             THEN read_lines(lines, i + 1,
                             dict_set(vertices, line.vertex, line.priority),
                             IF line.vertex \in DOMAIN edges
                             THEN edges
                             ELSE dict_set(edges, line.vertex, <<>>))
             ELSE IF line.kind = "edge"
             THEN read_lines(lines, i + 1, vertices,
                             setdefault_append(edges, line.source, line.target))
             ELSE read_lines(lines, i + 1, vertices, edges)

read_graph(dot_file) == read_lines(dot_file.lines, 1, <<>>, <<>>)

\* ------------------------------------------------------------------ assignments
\* Python: 2 ** k
RECURSIVE Pow2(_)
Pow2(k) == IF k = 0 THEN 1 ELSE 2 * Pow2(k - 1)

\* the bit strings of length k
BitStrings(k) == [1..k -> {0, 1}]

\* a mutant of product01: the first character varies fastest
RECURSIVE product01_reversed(_)
product01_reversed(k) ==
    IF k = 0
    THEN << <<>> >>
    ELSE LET shorter == product01_reversed(k - 1)
         IN  [i \in 1..(2 * Len(shorter)) |->
                 <<(i - 1) % 2>> \o shorter[((i - 1) \div 2) + 1]]

\* Python: ["".join(bits) for bits in itertools.product("01", repeat=k)]: every
\* string of length k - 1, in order, followed by "0" and then by "1"
RECURSIVE product01(_)
product01(k) ==
    IF k = 0
    THEN << <<>> >>
    ELSE LET shorter == product01(k - 1)
         IN  [i \in 1..(2 * Len(shorter)) |->
                 Append(shorter[((i - 1) \div 2) + 1], (i - 1) % 2)]

\* Python (compute-exact-probability-energy): v["owner"] = int(bit_string[v["id"]])
\* for every node of game_data itself; the result is game_data after the call
replace_players_in_place(game_data, bit_string) ==
    [game_data EXCEPT !.nodes =
        [i \in 1..Len(game_data.nodes) |->
            [game_data.nodes[i] EXCEPT !.owner = bit_string[game_data.nodes[i].id + 1]]]]

\* a mutant of replace_players_in_json: the string is read from its end
replace_players_in_json_reversed(base_game, bit_string) ==
    [base_game EXCEPT !.nodes =
        [i \in 1..Len(base_game.nodes) |->
            [base_game.nodes[i] EXCEPT
                !.owner = bit_string[Len(bit_string) - base_game.nodes[i].id]]]]

\* Python (fpraas-energy, compute-parallel-energy): a deep copy of base_game with
\* v["owner"] = int(bit_string[v["id"]]) for every node; the copy is what is dumped
replace_players_in_json(base_game, bit_string) ==
    [base_game EXCEPT !.nodes =
        [i \in 1..Len(base_game.nodes) |->
            [base_game.nodes[i] EXCEPT !.owner = bit_string[base_game.nodes[i].id + 1]]]]

\* Python: the vertex lines of the DOT file get player=<bit_string[index]>, every
\* other line is copied
replace_players_in_dot(dot_file, bit_string) ==
    [lines |-> [i \in 1..Len(dot_file.lines) |->
                   IF dot_file.lines[i].kind = "vertex"
                   THEN [dot_file.lines[i] EXCEPT !.player = bit_string[dot_file.lines[i].vertex + 1]]
                   ELSE dot_file.lines[i]]]

\* ------------------------------------------------------------------ graphs handed to the searches
Vertices == 0..(NumVertices - 1)

\* the lists of distinct elements of S, of length at most k
DistinctSeqs(S, k) ==
    {s \in UNION {[1..m -> S] : m \in 0..k} :
        \A i, j \in 1..Len(s) : i # j => s[i] # s[j]}

PairsOf(adj) == UNION {{<<u, adj[u][i]>> : i \in 1..Len(adj[u])} : u \in DOMAIN adj}

\* adjacency lists without repeated edges, at most MaxEdges edges in all
Adjacency ==
    {adj \in [Vertices -> DistinctSeqs(Vertices, Min(NumVertices, MaxEdges))] :
        Cardinality(PairsOf(adj)) <= MaxEdges}

\* the dict read_energy_game / read_graph builds: a key per source of an edge
\* (and, in a DOT graph, per declared vertex)
AsDict(adj, declared) ==
    [u \in {v \in DOMAIN adj : adj[v] # <<>> \/ v \in declared} |-> adj[u]]

\* ------------------------------------------------------------------ the gates of main
\* a mutant of energy_gate_closed: main returns early only if both checks fail
energy_gate_closed_both(can_win, has_neg_path) == ~can_win /\ ~has_neg_path

\* Python: not v0_can_win or not v0_has_neg_path
energy_gate_closed(can_win, has_neg_path) == ~can_win \/ ~has_neg_path

\* a mutant of reach_gate_closed: the priority-0-only region no longer closes the gate
reach_gate_closed_lasso_only(priority0_only, lasso) == ~lasso

\* Python: v0_priority0_only or not v0_lasso
reach_gate_closed(priority0_only, lasso) == priority0_only \/ ~lasso

\* a mutant of parity_gate_closed: main returns early only if both checks fail
parity_gate_closed_both(has_even_cycle, has_odd_cycle) == ~has_even_cycle /\ ~has_odd_cycle

\* Python: not v0_has_even_cycle or not v0_has_odd_cycle
parity_gate_closed(has_even_cycle, has_odd_cycle) == ~has_even_cycle \/ ~has_odd_cycle

\* ------------------------------------------------------------------ the solver's output
\* A line of the energy solver's output, by what parse_solver_output looks at:
\*   labelled: line.strip().startswith("The winning region is:")
\*   braces:   line.find("{") and line.find("}", start) both find something
\*   decodes:  eval(region_str), region.get(0, -1) and the comparison raise nothing
\*   exits:    eval(region_str) raises SystemExit (the text in braces calls exit),
\*             which "except Exception" does not catch
\*   region:   the dict eval gives
RegionLine(region) ==
    [labelled |-> TRUE, braces |-> TRUE, decodes |-> TRUE, exits |-> FALSE, region |-> region]
UndecodableLine ==
    [labelled |-> TRUE, braces |-> TRUE, decodes |-> FALSE, exits |-> FALSE, region |-> <<>>]
ExitingLine ==
    [labelled |-> TRUE, braces |-> TRUE, decodes |-> FALSE, exits |-> TRUE, region |-> <<>>]
NoBracesLine ==
    [labelled |-> TRUE, braces |-> FALSE, decodes |-> FALSE, exits |-> FALSE, region |-> <<>>]
OtherLine ==
    [labelled |-> FALSE, braces |-> FALSE, decodes |-> FALSE, exits |-> FALSE, region |-> <<>>]

\* what a call of parse_solver_output does when eval raises SystemExit
SystemExit == [raised |-> TRUE, value |-> 0]

\* Python: region.get(key, default)
region_get(region, key, default) == IF key \in DOMAIN region THEN region[key] ELSE default

\* a mutant of outcome_of: the value of vertex 0 is returned as it is
outcome_raw(value0) == value0

\* Python: return 1 if value0 >= 0 else 0
outcome_of(value0) == IF value0 >= 0 THEN 1 ELSE 0

\* the for loop over output.splitlines(): the first labelled line with braces
\* decides, 1 if vertex 0 maps to a value >= 0, 0 if not or if decoding raises an
\* Exception; a SystemExit of eval leaves the function
RECURSIVE parse_output_lines(_, _)
parse_output_lines(output, i) ==
    IF i > Len(output)
    THEN Returned(0)
    ELSE IF output[i].labelled /\ output[i].braces
    THEN IF output[i].decodes
         THEN Returned(outcome_of(region_get(output[i].region, 0, -1)))
         ELSE IF output[i].exits THEN SystemExit ELSE Returned(0)
    ELSE parse_output_lines(output, i + 1)

parse_solver_output(output) == parse_output_lines(output, 1)

\* A line of a CSV solver's output: whether it starts with "v0", and its
\* comma-separated parts
CsvLine(parts) == [v0 |-> TRUE, parts |-> parts]
OtherCsvLine == [v0 |-> FALSE, parts |-> <<>>]

\* Python: s.strip(), on the fields that occur
strip(field) == IF field = " 0" THEN "0" ELSE IF field = " 1" THEN "1" ELSE field

\* the for loop over output.splitlines(): the first "v0" line with enough parts
\* decides, 1 if its third part is "0"
RECURSIVE parse_csv_lines(_, _, _)
parse_csv_lines(output, i, min_parts) ==
    IF i > Len(output)
    THEN 0
    ELSE IF output[i].v0 /\ Len(output[i].parts) >= min_parts
    THEN (IF strip(output[i].parts[3]) = "0" THEN 1 ELSE 0)
    ELSE parse_csv_lines(output, i + 1, min_parts)

\* compute-exact-probability-reach.py and fpraas-parity.py: len(parts) >= 5
parse_solver_csv(output) == parse_csv_lines(output, 1, 5)
\* fpraas-reach.py: len(parts) >= 3
parse_solver_csv_sampled_reach(output) == parse_csv_lines(output, 1, 3)

\* One run of the solver process: its exit status, what it wrote to its standard
\* output, and the wall time measured around it
SolverRun(returncode, output, elapsed_ms) ==
    [returncode |-> returncode, output |-> output, elapsed_ms |-> elapsed_ms]

\* the message of the CalledProcessError, as a text: one line, not a verdict
EnergyErrorText == <<OtherLine>>
CsvErrorText == <<OtherCsvLine>>

\* a mutant of check_output_or_e_output: whatever the failed process wrote is dropped
check_output_or_message(run) ==
    IF run.returncode = 0 THEN run.output ELSE EnergyErrorText

\* compute-exact-probability-energy.py: check_output, and on CalledProcessError
\* solver_output = e.output or f"Solver error: {e}"
check_output_or_e_output(run) ==
    IF run.returncode = 0
    THEN run.output
    ELSE IF run.output # <<>> THEN run.output ELSE EnergyErrorText

\* the DOT drivers: check_output, and on CalledProcessError
\* solver_output = f"Solver error: {e}"
check_output_or_error(run) ==
    IF run.returncode = 0 THEN run.output ELSE CsvErrorText

\* ------------------------------------------------------------------ the inputs of the drivers
\* the graph files have vertices 0 .. DriverVertices - 1
DriverVertices == 2
\* and at most this many edges
DriverEdges == 2
\* args.samples / args.N is at most this
MaxSamples == 2
\* --seed of fpraas-energy.py: default=42
DefaultSeed == 42
\* args.workers is at most this
MaxWorkers == 2

\* the effects written in the JSON files; an edge may also carry no effect
DriverEffects == {-600, 600}
\* the priorities written in the DOT files
DriverPriorities == {0, 1}

DriverIds == 0..(DriverVertices - 1)
\* the vertices of the games given to the drivers that run a pool of workers
PoolIds == {0, 1}

AdjacencyOver(ids) ==
    {adj \in [ids -> DistinctSeqs(ids, Min(Cardinality(ids), DriverEdges))] :
        Cardinality(PairsOf(adj)) <= DriverEdges}

DriverAdjacency == AdjacencyOver(DriverIds)

\* the edges of adj as a list, the edges of vertex 0 first
RECURSIVE PairList(_, _)
PairList(adj, u) ==
    IF u \notin DOMAIN adj
    THEN <<>>
    ELSE [i \in 1..Len(adj[u]) |-> <<u, adj[u][i]>>] \o PairList(adj, u + 1)

\* <<>>: the edge carries no effect; <<e>>: it carries effect e
EffectChoices == {<<>>} \cup {<<e>> : e \in DriverEffects}

\* the JSON games over ids: a node per id, owned by player 0, and the edges of an
\* adjacency
EnergyFilesOver(ids) ==
    UNION {{[nodes |-> [i \in 1..Cardinality(ids) |-> [id |-> i - 1, owner |-> 0]],
             edges |-> [i \in 1..Len(PairList(adj, 0)) |->
                          IF eff[i] = <<>>
                          THEN [source |-> PairList(adj, 0)[i][1],
                                target |-> PairList(adj, 0)[i][2]]
                          ELSE [source |-> PairList(adj, 0)[i][1],
                                target |-> PairList(adj, 0)[i][2],
                                effect |-> eff[i][1]]]] :
              eff \in [1..Len(PairList(adj, 0)) -> EffectChoices]} :
           adj \in AdjacencyOver(ids)}

EnergyFiles == EnergyFilesOver(DriverIds)
\* the games given to the drivers that run a pool: two vertices, two edges at most,
\* listed in ascending order
PoolFiles ==
    {f \in EnergyFilesOver(PoolIds) :
        /\ Len(f.edges) <= 2
        /\ \A i \in 1..(Len(f.edges) - 1) :
              \/ f.edges[i].source < f.edges[i + 1].source
              \/ /\ f.edges[i].source = f.edges[i + 1].source
                 /\ f.edges[i].target < f.edges[i + 1].target}

\* the DOT files: a declaration per vertex, then the edges of an adjacency
DotFiles ==
    UNION {{[lines |->
               [i \in 1..DriverVertices |->
                   [kind |-> "vertex", vertex |-> i - 1, player |-> 0, priority |-> prio[i - 1]]]
               \o [i \in 1..Len(PairList(adj, 0)) |->
                   [kind |-> "edge", source |-> PairList(adj, 0)[i][1],
                    target |-> PairList(adj, 0)[i][2]]]] :
              prio \in [DriverIds -> DriverPriorities]} :
           adj \in DriverAdjacency}

\* the DOT games of two vertices with the cycles 0 -> 0 and 0 -> 1 -> 0
TwoCycleDotFiles ==
    {[lines |->
        [i \in 1..2 |->
            [kind |-> "vertex", vertex |-> i - 1, player |-> 0, priority |-> prio[i - 1]]]
        \o << [kind |-> "edge", source |-> 0, target |-> 0],
              [kind |-> "edge", source |-> 0, target |-> 1],
              [kind |-> "edge", source |-> 1, target |-> 0] >>] :
     prio \in [PoolIds -> DriverPriorities]}

\* the games given to fpraas-parity.py: a game passes its checks only if it has a
\* cycle of either parity
ParityFiles == DotFiles \cup TwoCycleDotFiles

\* DOT games that are not well formed: a game of TwoCycleDotFiles followed by a
\* line no pattern matches (an attribute that cannot be parsed), by an edge to a
\* vertex that is not declared, or by a cycle through such a vertex
MalformedDotFiles ==
    UNION {{[lines |-> f.lines \o <<[kind |-> "other"]>>],
            [lines |-> f.lines \o <<[kind |-> "edge", source |-> 0, target |-> 2]>>],
            [lines |-> f.lines \o <<[kind |-> "edge", source |-> 0, target |-> 2],
                                    [kind |-> "edge", source |-> 2, target |-> 0]>>]} :
           f \in TwoCycleDotFiles}

\* JSON games that are not well formed: an edge to a node that is not declared
MalformedEnergyFiles ==
    {[nodes |-> f.nodes,
      edges |-> f.edges \o <<[source |-> 0, target |-> Len(f.nodes)]>>] :
     f \in EnergyFilesOver({0}) \cup PoolFiles}

\* the games given to fpraas-energy.py, which checks nothing about the edges: the
\* games of one or two vertices with no edge, or with the loop on v0 and no effect
SampledFiles ==
    {f \in EnergyFilesOver({0}) \cup PoolFiles :
        /\ Len(f.edges) <= 1
        /\ \A i \in 1..Len(f.edges) :
              /\ "effect" \notin DOMAIN f.edges[i]
              /\ f.edges[i].source = 0 /\ f.edges[i].target = 0}

\* the interval of the progress snapshots
SnapshotInterval == 1000
\* args.interval of fpraas-energy.py
Intervals == {1, SnapshotInterval}

\* what the energy solver may do in a trial
EnergyRuns ==
    { SolverRun(0, <<OtherLine, RegionLine(0 :> 1)>>, 1),   \* v0 wins
      SolverRun(0, <<RegionLine(0 :> -1)>>, 2),             \* v0 loses
      SolverRun(0, <<UndecodableLine>>, 2),                 \* a verdict that does not decode
      SolverRun(1, <<>>, 2),                                \* fails, nothing written
      SolverRun(1, <<RegionLine(0 :> 1)>>, 1) }             \* fails after writing a verdict

\* what the energy solver may do in a trial of a pool worker
PoolRuns ==
    { SolverRun(0, <<OtherLine, RegionLine(0 :> 1)>>, 1),   \* v0 wins
      SolverRun(0, <<RegionLine(0 :> -1)>>, 2),             \* v0 loses
      SolverRun(0, <<UndecodableLine>>, 2),                 \* a verdict that does not decode
      SolverRun(0, <<ExitingLine>>, 1),                     \* a verdict whose eval exits
      SolverRun(1, <<RegionLine(0 :> 1)>>, 1) }             \* fails after writing a verdict

\* what a CSV solver may do in a trial
CsvRuns ==
    { SolverRun(0, <<OtherCsvLine, CsvLine(<<"v0", "1", "0", "v0", "0.012">>)>>, 1),
      SolverRun(0, <<CsvLine(<<"v0", "1", "1", "v0", "0.012">>)>>, 2),
      SolverRun(0, <<OtherCsvLine>>, 2),
      SolverRun(1, <<CsvLine(<<"v0", "1", "0", "v0", "0.012">>)>>, 2) }

\* a batch long enough to pass the snapshot interval: a game of LongVertices
\* vertices, the solver losing every trial
LongVertices == 10
LongIds == 0..(LongVertices - 1)

LongEnergyFile ==
    [nodes |-> [i \in 1..LongVertices |-> [id |-> i - 1, owner |-> 0]],
     edges |-> << [source |-> 0, target |-> 0],
                  [source |-> 0, target |-> 1, effect |-> -600] >>]

LongDotFile ==
    [lines |->
        [i \in 1..LongVertices |->
            [kind |-> "vertex", vertex |-> i - 1, player |-> 0,
             priority |-> IF i = 2 THEN 1 ELSE 0]]
        \o << [kind |-> "edge", source |-> 0, target |-> 0],
              [kind |-> "edge", source |-> 0, target |-> 1] >>]

LongEnergyRuns == {SolverRun(0, <<RegionLine(0 :> -1)>>, 2)}
LongCsvRuns == {SolverRun(0, <<CsvLine(<<"v0", "1", "1", "v0", "0.012">>)>>, 2)}

\* the texts handed to the parsers in direct calls have at most this many lines
MaxLines == 2

\* lines of an energy solver's output
EnergyLines ==
    {OtherLine, NoBracesLine, UndecodableLine, ExitingLine,
     RegionLine(0 :> 1), RegionLine(0 :> 0), RegionLine(0 :> -1), RegionLine(1 :> 1)}

EnergyTexts == UNION {[1..k -> EnergyLines] : k \in 0..MaxLines}

\* lines of a CSV solver's output: a line that does not start with "v0", and "v0"
\* records of 2, 3, 4 and 5 fields
CsvLines ==
    {OtherCsvLine, CsvLine(<<"v0", "1">>)}
    \cup {CsvLine(<<"v0", "1", third>> \o rest) :
            third \in {"0", "1", " 0"},
            rest \in {<<>>, <<"v0">>, <<"v0", "0.012">>}}

CsvTexts == UNION {[1..k -> CsvLines] : k \in 0..MaxLines}

\* ------------------------------------------------------------------ state
VARIABLES
    driver,             \* which script runs, or "search" for a direct call of a search
    pc,                 \* where main (or the sequence of direct calls) stands
    input_file,         \* the content of args.input_file
    samples,            \* args.samples / args.N
    workers,            \* args.workers
    game_data,          \* the JSON game in memory (energy drivers)
    vertices,           \* dict vertex -> owner (energy) or vertex -> priority (DOT)
    edges,              \* dict vertex -> list of successors
    weights,            \* dict (source, target) -> effect
    n,                  \* len(vertices)
    energy_limit,       \* the ceiling handed to an energy search
    v0_can_win,         \* find_nonnegative_lasso(...)
    v0_has_neg_path,    \* exists_negative_energy_path(...)
    v0_priority0_only,  \* v0_reaches_only_priority0(...)
    v0_lasso,           \* has_full_priority0_lasso(...)
    v0_has_even_cycle,  \* v0_lasso_even(...)
    v0_has_odd_cycle,   \* v0_lasso_odd(...)
    bit_strings,        \* the assignments collected for the pool
    dispatched,         \* the assignments handed to the solver so far, in order
    in_flight,          \* the assignments a pool worker is solving
    fetched,            \* how many tasks the workers have fetched from the pool
    returned,           \* the results solve_one returned, not folded yet
    outqueue,           \* the tasks whose result waits in the pool's result queue
    died,               \* the tasks whose worker process was ended by a SystemExit
    bit_string_set,     \* the set of distinct strings fpraas-energy collects
    logf,               \* the lines written to the result log
    total_aggregated,   \* won count
    games_solved,       \* trials folded (games_solved / idx)
    interval,           \* args.interval (fpraas-energy.py); the default elsewhere
    total_time_ms,      \* the cumulative solver time
    last_trial,         \* the exit status and the outcome of the trial folded last
    outcomes,           \* task -> the agg_value solve_one returned for it
    tmp_dir,            \* the temporary instance files: name -> content
    progress,           \* the snapshots printed on standard output
    flushed,            \* how many lines of logf are forced to disk
    seed,               \* args.seed (fpraas-energy.py); the default elsewhere
    generator,          \* <<s>>: random.seed(s) was called; <<>>: seeded by the system
    drawn,              \* the strings drawn so far, kept when the script is run twice
    earlier,            \* <<>>, or the record of the earlier run of the script
    solver_text,        \* the text handed to a parser in a direct call
    agg_values,         \* function -> what the direct call of it returned
    search_stack,       \* the stack (or queue) of the search loop being stepped
    search_visited,     \* its visited_states (or visited) set
    search_parity,      \* the parity handed to find_lasso_highest_priority
    run_no              \* 0: a single run; 1, 2: the first, the second of two runs

argVars == <<driver, input_file, samples, workers, interval, seed>>
rngVars == <<generator, drawn, earlier, run_no>>
searchVars == <<search_stack, search_visited, search_parity>>
parseVars == <<solver_text, agg_values, searchVars>>
graphVars == <<game_data, vertices, edges, weights, n, energy_limit>>
energyCheckVars == <<v0_can_win, v0_has_neg_path>>
parityCheckVars == <<v0_priority0_only, v0_lasso, v0_has_even_cycle, v0_has_odd_cycle>>
queueVars == <<fetched, outqueue, died>>
poolVars == <<bit_strings, bit_string_set, in_flight, returned, outcomes, tmp_dir, queueVars>>
foldVars == <<total_aggregated, games_solved, total_time_ms, last_trial>>
logVars == <<logf, progress, flushed>>
trialVars == <<dispatched, poolVars, foldVars, logVars>>
vars == <<pc, argVars, rngVars, parseVars, graphVars, energyCheckVars, parityCheckVars, trialVars>>

\* start=0: the searches start at vertex 0
StartVertex == 0
\* energy_limit=1000: the ceiling when main calls the energy searches
DefaultEnergyLimit == 1000

NoFile == [lines |-> <<>>]
NoGame == [nodes |-> <<>>, edges |-> <<>>]
EmptyDict == [x \in {} |-> 0]
NoTrial == [returncode |-> 0, agg_value |-> 0]

NoChecks ==
    /\ v0_can_win = FALSE /\ v0_has_neg_path = FALSE
    /\ v0_priority0_only = FALSE /\ v0_lasso = FALSE
    /\ v0_has_even_cycle = Returned(FALSE) /\ v0_has_odd_cycle = Returned(FALSE)

NoTrials ==
    /\ bit_strings = <<>> /\ dispatched = <<>> /\ in_flight = {} /\ returned = {}
    /\ bit_string_set = {} /\ logf = <<>>
    /\ total_aggregated = 0 /\ games_solved = 0
    /\ total_time_ms = 0 /\ last_trial = NoTrial
    /\ outcomes = EmptyDict /\ tmp_dir = EmptyDict
    /\ fetched = 0 /\ outqueue = <<>> /\ died = {}
    /\ progress = <<>> /\ flushed = 0
    /\ generator = <<>> /\ drawn = <<>> /\ earlier = <<>>

\* no parser is called directly
NoSearch == search_stack = <<>> /\ search_visited = {} /\ search_parity = 0

NoTexts == solver_text = <<>> /\ agg_values = EmptyDict /\ NoSearch

\* ------------------------------------------------------------------ direct calls of the energy searches
EnergySearchInit ==
    /\ driver = "search" /\ pc = "energy_args"
    /\ input_file = NoFile /\ samples = 0 /\ workers = 0 /\ interval = SnapshotInterval /\ seed = DefaultSeed /\ run_no = 0
    /\ game_data = NoGame /\ vertices = EmptyDict /\ n = 0
    /\ \E adj \in Adjacency :
         /\ edges = AsDict(adj, {})
         /\ weights \in [PairsOf(adj) -> Effects]
    /\ energy_limit \in EnergyLimits
    /\ NoChecks /\ NoTrials /\ NoTexts

CallFindNonnegativeLasso ==
    /\ pc = "energy_args"
    /\ v0_can_win' = find_nonnegative_lasso(edges, weights, StartVertex, energy_limit)
    /\ pc' = "lasso_called"
    /\ UNCHANGED <<parseVars, argVars, rngVars, graphVars, v0_has_neg_path, parityCheckVars, trialVars>>

CallExistsNegativeEnergyPath ==
    /\ pc = "lasso_called"
    /\ v0_has_neg_path' = exists_negative_energy_path(edges, weights, StartVertex, energy_limit)
    /\ pc' = "neg_called"
    /\ UNCHANGED <<parseVars, argVars, rngVars, graphVars, v0_can_win, parityCheckVars, trialVars>>

EnergySearchNext == CallFindNonnegativeLasso \/ CallExistsNegativeEnergyPath

SpecEnergySearch == EnergySearchInit /\ [][EnergySearchNext]_vars

IsGame5 == edges = Game5Edges /\ weights = Game5Weights

LassoCalled == driver = "search" /\ pc \in {"lasso_called", "neg_called"}
NegCalled == driver = "search" /\ pc = "neg_called"

\* ------------------------------------------------------------------ direct calls of the parity searches
ParitySearchInit ==
    /\ driver = "search" /\ pc = "parity_args"
    /\ input_file = NoFile /\ samples = 0 /\ workers = 0 /\ interval = SnapshotInterval /\ seed = DefaultSeed /\ run_no = 0
    /\ game_data = NoGame /\ weights = EmptyDict /\ n = 0 /\ energy_limit = 0
    /\ \E declared \in SUBSET Vertices :
         /\ vertices \in [declared -> 0..MaxPriority]
         /\ \E adj \in Adjacency : edges = AsDict(adj, declared)
    /\ NoChecks /\ NoTrials /\ NoTexts

CallReachesOnlyPriority0 ==
    /\ pc = "parity_args"
    /\ v0_priority0_only' = v0_reaches_only_priority0(vertices, edges)
    /\ pc' = "reach_called"
    /\ UNCHANGED <<parseVars, argVars, rngVars, graphVars, energyCheckVars, v0_lasso, v0_has_even_cycle,
                   v0_has_odd_cycle, trialVars>>

CallHasFullPriority0Lasso ==
    /\ pc = "reach_called"
    /\ v0_lasso' = has_full_priority0_lasso(vertices, edges)
    /\ pc' = "p0_lasso_called"
    /\ UNCHANGED <<parseVars, argVars, rngVars, graphVars, energyCheckVars, v0_priority0_only, v0_has_even_cycle,
                   v0_has_odd_cycle, trialVars>>

CallLassoEven ==
    /\ pc = "p0_lasso_called"
    /\ v0_has_even_cycle' = v0_lasso_even(vertices, edges)
    /\ pc' = "even_called"
    /\ UNCHANGED <<parseVars, argVars, rngVars, graphVars, energyCheckVars, v0_priority0_only, v0_lasso,
                   v0_has_odd_cycle, trialVars>>

CallLassoOdd ==
    /\ pc = "even_called"
    /\ v0_has_odd_cycle' = v0_lasso_odd(vertices, edges)
    /\ pc' = "odd_called"
    /\ UNCHANGED <<parseVars, argVars, rngVars, graphVars, energyCheckVars, v0_priority0_only, v0_lasso,
                   v0_has_even_cycle, trialVars>>

ParitySearchNext ==
    CallReachesOnlyPriority0 \/ CallHasFullPriority0Lasso \/ CallLassoEven \/ CallLassoOdd

SpecParitySearch == ParitySearchInit /\ [][ParitySearchNext]_vars

ParityCalled == driver = "search" /\ pc = "odd_called"

\* ------------------------------------------------------------------ the searches, one loop turn at a time
\* the five searches
EnergySearches == {"find_nonnegative_lasso", "exists_negative_energy_path"}
ParitySearches == {"find_lasso_highest_priority", "has_full_priority0_lasso",
                   "v0_reaches_only_priority0"}

\* edge effects of the graphs the energy searches are stepped on
StepEffects == {-1, 0, 1}

\* a search is about to be called (pc names it) on a graph
SearchStepsInit ==
    /\ driver = "search"
    /\ input_file = NoFile /\ samples = 0 /\ workers = 0
    /\ interval = SnapshotInterval /\ seed = DefaultSeed /\ run_no = 0
    /\ game_data = NoGame /\ n = 0
    /\ NoChecks /\ NoTrials
    /\ solver_text = <<>> /\ agg_values = EmptyDict
    /\ search_stack = <<>> /\ search_visited = {}
    /\ \/ /\ pc \in EnergySearches
          /\ vertices = EmptyDict /\ search_parity = 0
          /\ \E adj \in DriverAdjacency :
               /\ edges = AsDict(adj, {})
               /\ weights \in [PairsOf(adj) -> StepEffects]
          /\ energy_limit \in EnergyLimits
       \/ /\ pc \in ParitySearches
          /\ weights = EmptyDict /\ energy_limit = 0
          /\ search_parity \in (IF pc = "find_lasso_highest_priority" THEN {0, 1} ELSE {0})
          /\ \E declared \in SUBSET DriverIds :
               /\ vertices \in [declared -> DriverPriorities]
               /\ \E adj \in DriverAdjacency : edges = AsDict(adj, declared)

\* the loop is entered with its first frame
search_enters(loop, first) ==
    /\ pc' = loop
    /\ search_stack' = <<first>>
    /\ search_visited' = {}
    /\ UNCHANGED <<solver_text, agg_values, search_parity, argVars, rngVars, graphVars,
                   energyCheckVars, parityCheckVars, trialVars>>

\* the loop goes round once more
search_continues(stack, visited) ==
    /\ search_stack' = stack
    /\ search_visited' = visited
    /\ UNCHANGED <<pc, solver_text, agg_values, search_parity, argVars, rngVars, graphVars,
                   energyCheckVars, parityCheckVars, trialVars>>

\* the function returns value (or raises): its locals are gone
search_returns(function, value) ==
    /\ pc' = "returned"
    /\ agg_values' = dict_set(agg_values, function, value)
    /\ search_stack' = <<>>
    /\ search_visited' = {}
    /\ UNCHANGED <<solver_text, search_parity, argVars, rngVars, graphVars,
                   energyCheckVars, parityCheckVars, trialVars>>

\* find_nonnegative_lasso: stack = [(start, [start], 0)], visited_states = set()
EnterFindNonnegativeLasso ==
    /\ pc = "find_nonnegative_lasso"
    /\ search_enters("lasso_loop",
                     [current |-> StartVertex, path |-> <<StartVertex>>, energy |-> 0])

\* one turn of its while loop
StepFindNonnegativeLasso ==
    /\ pc = "lasso_loop"
    /\ IF search_stack = <<>>
       THEN search_returns("find_nonnegative_lasso", FALSE)
       ELSE LET frame == search_stack[Len(search_stack)]
                rest == ButLast(search_stack)
            IN  IF frame.energy < 0
                THEN search_continues(rest, search_visited)
                ELSE IF on_path_before(frame.current, frame.path)
                THEN IF cycle_accepted(weights, frame.current, frame.path)
                     THEN search_returns("find_nonnegative_lasso", TRUE)
                     ELSE search_continues(rest, search_visited)
                ELSE LET r == lasso_push(weights, energy_limit, frame,
                                         edges_get(edges, frame.current), 1, rest,
                                         search_visited)
                     IN  search_continues(r.stack, r.visited_states)

\* exists_negative_energy_path: stack = [(start, 0)], visited_states = set()
EnterExistsNegativeEnergyPath ==
    /\ pc = "exists_negative_energy_path"
    /\ search_enters("neg_loop", <<StartVertex, 0>>)

\* one turn of its while loop
StepExistsNegativeEnergyPath ==
    /\ pc = "neg_loop"
    /\ IF search_stack = <<>>
       THEN search_returns("exists_negative_energy_path", FALSE)
       ELSE LET top == search_stack[Len(search_stack)]
                rest == ButLast(search_stack)
            IN  IF top \in search_visited
                THEN search_continues(rest, search_visited)
                ELSE LET r == neg_push(weights, energy_limit, top[1], top[2],
                                       edges_get(edges, top[1]), 1, rest)
                     IN  IF r.found
                         THEN search_returns("exists_negative_energy_path", TRUE)
                         ELSE search_continues(r.stack, search_visited \cup {top})

\* find_lasso_highest_priority: stack = [("v0", [])]
EnterFindLassoHighestPriority ==
    /\ pc = "find_lasso_highest_priority"
    /\ search_enters("parity_loop", [current |-> 0, path |-> <<>>])

\* one turn of its while loop
StepFindLassoHighestPriority ==
    /\ pc = "parity_loop"
    /\ IF search_stack = <<>>
       THEN search_returns("find_lasso_highest_priority", Returned(FALSE))
       ELSE LET frame == search_stack[Len(search_stack)]
                rest == ButLast(search_stack)
            IN  IF InList(frame.current, frame.path)
                THEN LET cycle == Append(SubSeq(frame.path,
                                                ListIndex(frame.path, frame.current),
                                                Len(frame.path)), frame.current)
                     IN  IF \E i \in 1..Len(cycle) : cycle[i] \notin DOMAIN vertices
                         THEN search_returns("find_lasso_highest_priority", KeyError)
                         ELSE IF parity_matches(max_priority(vertices, cycle), search_parity)
                         THEN search_returns("find_lasso_highest_priority", Returned(TRUE))
                         ELSE search_continues(rest, search_visited)
                ELSE search_continues(push_all(rest, edges_get(edges, frame.current),
                                               Append(frame.path, frame.current)),
                                      search_visited)

\* v0_reaches_only_priority0: False without "v0", else queue = deque(["v0"])
EnterReachesOnlyPriority0 ==
    /\ pc = "v0_reaches_only_priority0"
    /\ IF 0 \notin DOMAIN vertices
       THEN search_returns("v0_reaches_only_priority0", FALSE)
       ELSE search_enters("reach_loop", 0)

\* one turn of its while loop
StepReachesOnlyPriority0 ==
    /\ pc = "reach_loop"
    /\ IF search_stack = <<>>
       THEN search_returns("v0_reaches_only_priority0", TRUE)
       ELSE LET current == Head(search_stack)
                rest == Tail(search_stack)
            IN  IF current \in search_visited
                THEN search_continues(rest, search_visited)
                ELSE IF vertices_get(vertices, current) # 0
                THEN search_returns("v0_reaches_only_priority0", FALSE)
                ELSE search_continues(rest \o edges_get(edges, current),
                                      search_visited \cup {current})

\* has_full_priority0_lasso: False unless "v0" has priority 0, else stack = [("v0", [])]
EnterHasFullPriority0Lasso ==
    /\ pc = "has_full_priority0_lasso"
    /\ IF 0 \notin DOMAIN vertices \/ vertices[0] # 0
       THEN search_returns("has_full_priority0_lasso", FALSE)
       ELSE search_enters("p0_lasso_loop", [current |-> 0, path |-> <<>>])

\* one turn of its while loop
StepHasFullPriority0Lasso ==
    /\ pc = "p0_lasso_loop"
    /\ IF search_stack = <<>>
       THEN search_returns("has_full_priority0_lasso", FALSE)
       ELSE LET frame == search_stack[Len(search_stack)]
                rest == ButLast(search_stack)
            IN  IF vertices_get(vertices, frame.current) # 0
                THEN search_continues(rest, search_visited)
                ELSE IF InList(frame.current, frame.path)
                THEN search_returns("has_full_priority0_lasso", TRUE)
                ELSE search_continues(push_all(rest, edges_get(edges, frame.current),
                                               Append(frame.path, frame.current)),
                                      search_visited)

SearchStepsNext ==
    \/ EnterFindNonnegativeLasso \/ StepFindNonnegativeLasso
    \/ EnterExistsNegativeEnergyPath \/ StepExistsNegativeEnergyPath
    \/ EnterFindLassoHighestPriority \/ StepFindLassoHighestPriority
    \/ EnterReachesOnlyPriority0 \/ StepReachesOnlyPriority0
    \/ EnterHasFullPriority0Lasso \/ StepHasFullPriority0Lasso

\* a running interpreter keeps executing the loop it is in
SpecSearchSteps == SearchStepsInit /\ [][SearchStepsNext]_vars /\ WF_vars(SearchStepsNext)

\* ------------------------------------------------------------------ direct calls of the parsers
ParseInit(texts, at) ==
    /\ driver = "parse" /\ pc = at
    /\ input_file = NoFile /\ samples = 0 /\ workers = 0
    /\ interval = SnapshotInterval /\ seed = DefaultSeed /\ run_no = 0
    /\ game_data = NoGame /\ vertices = EmptyDict /\ edges = EmptyDict
    /\ weights = EmptyDict /\ n = 0 /\ energy_limit = DefaultEnergyLimit
    /\ NoChecks /\ NoTrials
    /\ solver_text \in texts /\ agg_values = EmptyDict /\ NoSearch

EnergyParseInit == ParseInit(EnergyTexts, "output_args")
CsvParseInit == ParseInit(CsvTexts, "csv_args")

\* parse_solver_output(solver_text)
CallParseSolverOutput ==
    /\ pc = "output_args"
    /\ agg_values' = dict_set(agg_values, "parse_solver_output",
                              parse_solver_output(solver_text))
    /\ pc' = "output_parsed"
    /\ UNCHANGED <<solver_text, searchVars, argVars, rngVars, graphVars, energyCheckVars,
                   parityCheckVars, trialVars>>

\* parse_solver_csv(solver_text) of compute-exact-probability-reach.py
CallParseSolverCsv ==
    /\ pc = "csv_args"
    /\ agg_values' = dict_set(agg_values, "exact_reach", parse_solver_csv(solver_text))
    /\ pc' = "csv_parsed"
    /\ UNCHANGED <<solver_text, searchVars, argVars, rngVars, graphVars, energyCheckVars,
                   parityCheckVars, trialVars>>

\* parse_solver_csv(solver_text) of fpraas-reach.py, on the same text
CallParseSolverCsvSampledReach ==
    /\ pc = "csv_parsed"
    /\ agg_values' = dict_set(agg_values, "fpraas_reach",
                              parse_solver_csv_sampled_reach(solver_text))
    /\ pc' = "csv_parsed_both"
    /\ UNCHANGED <<solver_text, searchVars, argVars, rngVars, graphVars, energyCheckVars,
                   parityCheckVars, trialVars>>

SpecEnergyParse == EnergyParseInit /\ [][CallParseSolverOutput]_vars

CsvParseNext == CallParseSolverCsv \/ CallParseSolverCsvSampledReach

SpecCsvParse == CsvParseInit /\ [][CsvParseNext]_vars

\* ------------------------------------------------------------------ the drivers
EnergyDrivers == {"exact_energy", "parallel_energy", "fpraas_energy"}
DotDrivers == {"exact_reach", "fpraas_reach", "fpraas_parity"}
SamplingDrivers == {"fpraas_energy", "fpraas_reach", "fpraas_parity"}
PoolDrivers == {"parallel_energy", "fpraas_energy"}

\* nothing is read yet
NothingRead ==
    /\ game_data = NoGame /\ vertices = EmptyDict /\ edges = EmptyDict /\ weights = EmptyDict
    /\ n = 0 /\ energy_limit = DefaultEnergyLimit
    /\ NoChecks /\ NoTrials /\ NoTexts

\* the state when main starts: the command line is parsed, nothing is read yet
DriverInit(drivers) ==
    /\ driver \in drivers /\ pc = "start"
    /\ input_file \in (IF driver = "fpraas_energy" THEN SampledFiles
                       ELSE IF driver \in PoolDrivers THEN PoolFiles
                       ELSE IF driver \in EnergyDrivers THEN EnergyFiles
                       ELSE IF driver = "fpraas_parity" THEN ParityFiles ELSE DotFiles)
    /\ samples \in (IF driver \in SamplingDrivers THEN 0..MaxSamples ELSE {0})
    /\ workers \in (IF driver \in PoolDrivers THEN 1..MaxWorkers ELSE {0})
    /\ interval = SnapshotInterval /\ seed = DefaultSeed /\ run_no = 0
    /\ NothingRead

\* a sampling driver started on a file that is not well formed
MalformedInit ==
    /\ driver \in {"fpraas_energy", "fpraas_parity"} /\ pc = "start"
    /\ input_file \in (IF driver = "fpraas_energy" THEN MalformedEnergyFiles
                       ELSE MalformedDotFiles)
    /\ samples \in 0..MaxSamples
    /\ workers \in (IF driver = "fpraas_energy" THEN {1} ELSE {0})
    /\ interval = SnapshotInterval /\ seed = DefaultSeed /\ run_no = 0
    /\ NothingRead

\* fpraas-energy.py asked for up to one sample more than MaxSamples, which is more
\* than a game of one vertex has assignments
CollectInit ==
    /\ driver = "fpraas_energy" /\ pc = "start"
    /\ input_file \in SampledFiles
    /\ samples \in 0..(MaxSamples + 1)
    /\ workers = 1
    /\ interval = SnapshotInterval /\ seed = DefaultSeed /\ run_no = 0
    /\ NothingRead

\* the seeds given with --seed
Seeds == {DefaultSeed, DefaultSeed + 1}

\* a sampling driver that will be run twice on the same command line
SeededInit ==
    /\ driver \in SamplingDrivers /\ pc = "start"
    /\ input_file \in (IF driver = "fpraas_energy"
                       THEN {f \in SampledFiles : f.edges = <<>>}
                       ELSE TwoCycleDotFiles)
    /\ samples \in 1..MaxSamples
    /\ workers \in (IF driver = "fpraas_energy" THEN {1} ELSE {0})
    /\ interval = SnapshotInterval
    /\ seed \in (IF driver = "fpraas_energy" THEN Seeds ELSE {DefaultSeed})
    /\ run_no = 1
    /\ NothingRead

\* fpraas-energy.py started with --interval
IntervalInit ==
    /\ driver = "fpraas_energy" /\ pc = "start"
    /\ input_file \in SampledFiles
    /\ samples \in 0..MaxSamples
    /\ workers \in 1..MaxWorkers
    /\ interval \in Intervals /\ seed = DefaultSeed /\ run_no = 0
    /\ NothingRead

\* the sequential exhaustive drivers started on the long games
LongInit ==
    /\ driver \in {"exact_energy", "exact_reach"} /\ pc = "start"
    /\ input_file = (IF driver = "exact_energy" THEN LongEnergyFile ELSE LongDotFile)
    /\ samples = 0 /\ workers = 0 /\ interval = SnapshotInterval /\ seed = DefaultSeed /\ run_no = 0
    /\ NothingRead

\* the except clause around the call of the solver catches CalledProcessError and the
\* parsers raise nothing: the loop goes on whatever the exit status of the process
after_solver(returncode) == "running"

\* a mutant of accumulate: the value of the trial replaces the total
accumulate_overwrite(total, value) == value

\* Python: total += value
accumulate(total, value) == total + value

\* Python: the snapshot appended when count % 1000 == 0
snapshot(log, won, count) ==
    IF count % SnapshotInterval = 0
    THEN Append(log, [won |-> won, total |-> count])
    ELSE log

\* compute-exact-probability-energy.py and compute-parallel-energy.py, main up to
\* the loop: read the game, run both checks, return early or set up the enumeration
MainEnergy ==
    /\ pc = "start" /\ driver \in {"exact_energy", "parallel_energy"}
    /\ LET g == read_energy_game(input_file)
           can_win == find_nonnegative_lasso(g.edges, g.weights, StartVertex, DefaultEnergyLimit)
           has_neg == exists_negative_energy_path(g.edges, g.weights, StartVertex,
                                                  DefaultEnergyLimit)
       IN  /\ vertices' = g.vertices /\ edges' = g.edges /\ weights' = g.weights
           /\ game_data' = g.game_data
           /\ v0_can_win' = can_win /\ v0_has_neg_path' = has_neg
           /\ IF energy_gate_closed(can_win, has_neg)
              THEN pc' = "returned_early" /\ UNCHANGED <<n, bit_strings,
                   queueVars>>
              ELSE /\ pc' = "running"
                   /\ n' = Cardinality(DOMAIN g.vertices)
                   /\ bit_strings' = IF driver = "parallel_energy"
                                     THEN product01(Cardinality(DOMAIN g.vertices))
                                     ELSE <<>>
    /\ UNCHANGED <<parseVars, argVars, rngVars, energy_limit, parityCheckVars, bit_string_set, dispatched,
                   in_flight, returned, outcomes, tmp_dir, foldVars, logVars,
                   queueVars>>

\* a sequential driver is inside a turn of its loop: the instance of the turn is
\* written and main waits for the solver (subprocess.check_output)
solver_awaited == Len(dispatched) = games_solved + 1

\* compute-exact-probability-energy.py, a turn of the for loop up to the call of
\* the solver: the next string of the product, the owners of game_data overwritten
\* in place and dumped
StartExactEnergy ==
    /\ pc = "running" /\ driver = "exact_energy"
    /\ ~solver_awaited
    /\ games_solved < Pow2(n)
    /\ LET bit_string == product01(n)[games_solved + 1]
       IN  /\ game_data' = replace_players_in_place(game_data, bit_string)
           /\ dispatched' = Append(dispatched, bit_string)
    /\ UNCHANGED <<pc, parseVars, argVars, rngVars, vertices, edges, weights, n, energy_limit,
                   energyCheckVars, parityCheckVars, poolVars, foldVars, logVars>>

\* the rest of the turn, with the solver doing one of runs: the time is added, the
\* verdict parsed (a SystemExit of eval ends main there) and folded in, the progress
\* printed
TrialExactEnergyWith(runs) ==
    /\ pc = "running" /\ driver = "exact_energy"
    /\ solver_awaited
    /\ \E run \in runs :
         LET solver_output == check_output_or_e_output(run)
             parsed == parse_solver_output(solver_output)
             agg_value == parsed.value
         IN  /\ total_time_ms' = total_time_ms + run.elapsed_ms
             /\ IF parsed.raised
                THEN /\ pc' = "raised"
                     /\ UNCHANGED <<total_aggregated, games_solved, last_trial, progress>>
                ELSE /\ total_aggregated' = accumulate(total_aggregated, agg_value)
                     /\ games_solved' = games_solved + 1
                     /\ last_trial' = [returncode |-> run.returncode, agg_value |-> agg_value]
                     /\ progress' = snapshot(progress, total_aggregated', games_solved')
                     /\ pc' = after_solver(run.returncode)
    /\ UNCHANGED <<parseVars, argVars, rngVars, graphVars, energyCheckVars,
                   parityCheckVars, poolVars, dispatched, logf, flushed>>

TrialExactEnergy == TrialExactEnergyWith(EnergyRuns)

\* the loop is over: the final line of the log, and the log is closed
FinishExact ==
    /\ pc = "running" /\ driver \in {"exact_energy", "exact_reach"}
    /\ games_solved = Pow2(n)
    /\ logf' = Append(logf, [won |-> total_aggregated, total |-> games_solved])
    /\ flushed' = Len(logf')
    /\ pc' = "done"
    /\ UNCHANGED <<parseVars, argVars, rngVars, graphVars, energyCheckVars, parityCheckVars, poolVars, dispatched,
                   foldVars, progress>>

\* fpraas-energy.py, main up to the sampling loop: the game is read, no check is run
MainFpraasEnergy ==
    /\ pc = "start" /\ driver = "fpraas_energy"
    /\ LET g == read_energy_game(input_file)
       IN  /\ vertices' = g.vertices /\ edges' = g.edges /\ weights' = g.weights
           /\ game_data' = g.game_data
           /\ n' = Cardinality(DOMAIN g.vertices)
    /\ generator' = <<seed>>
    /\ pc' = "collecting"
    /\ UNCHANGED <<parseVars, argVars, drawn, earlier, run_no, energy_limit, energyCheckVars,
                   parityCheckVars, trialVars>>

\* a mutant of random_strings: the generator yields the string of zeros at every draw
random_strings_stuck(k, gen, position, before) == {[i \in 1..k |-> 0]}

\* Python: "".join(random.choice("01") for _ in range(k)), the strings the generator
\* can yield at its next draw: a generator that random.seed set as in the earlier
\* run of the script repeats the draws of that run, any other yields any string
random_strings(k, gen, position, before) ==
    IF /\ gen # <<>> /\ before # <<>>
       /\ before[1].generator = gen
       /\ position < Len(before[1].drawn)
    THEN {before[1].drawn[position + 1]}
    ELSE BitStrings(k)

\* how many draws of a string that is in the set already are recorded in drawn
MaxRepeats == 1

\* the draws recorded that added nothing to the set
repeats == Len(drawn) - Cardinality(bit_string_set)

\* fpraas-energy.py, one turn of "while len(bit_strings) < args.samples": a random
\* string is added to the set; drawn keeps every draw, repeats included, in the
\* order of the draws
CollectSample ==
    /\ pc = "collecting"
    /\ Cardinality(bit_string_set) < samples
    /\ \E bit_string \in random_strings(n, generator, Len(drawn), earlier) :
         /\ (run_no > 0 /\ bit_string \in bit_string_set) => repeats < MaxRepeats
         /\ bit_string_set' = bit_string_set \cup {bit_string}
         /\ drawn' = IF run_no > 0 THEN Append(drawn, bit_string) ELSE drawn
    /\ UNCHANGED <<pc, parseVars, argVars, generator, earlier, run_no, graphVars, energyCheckVars, parityCheckVars, bit_strings,
                   dispatched, in_flight, returned, outcomes, tmp_dir, foldVars, logVars,
                   queueVars>>

\* fpraas-energy.py: bit_strings = list(bit_strings), in the set's iteration order
ListSamples ==
    /\ pc = "collecting"
    /\ ~(Cardinality(bit_string_set) < samples)
    /\ \E order \in DistinctSeqs(bit_string_set, Cardinality(bit_string_set)) :
         /\ Len(order) = Cardinality(bit_string_set)
         /\ bit_strings' = order
    /\ pc' = "running"
    /\ UNCHANGED <<parseVars, argVars, rngVars, graphVars, energyCheckVars, parityCheckVars, bit_string_set,
                   dispatched, in_flight, returned, outcomes, tmp_dir, foldVars, logVars,
                   queueVars>>

\* a mutant of tmp_file: one name for every trial
tmp_file_shared(bit_string) == <<"game", <<>>>>

\* Python: os.path.join(tmp_dir, f"game_{bit_string}.json")
tmp_file(bit_string) == <<"game", bit_string>>

\* a mutant of dict_remove: the cleanup empties the directory
dict_remove_all(d, name) == [k \in {} |-> 0]

\* Python: os.remove(name), FileNotFoundError passed over
dict_remove(d, name) == [k \in (DOMAIN d) \ {name} |-> d[k]]

\* the tasks the workers have fetched from the queue of the pool, which serves
\* the list in its order; finished are those whose solve_one has returned, started
\* those whose solve_one has written its instance
tasks_taken == 1..fetched
tasks_finished == DOMAIN outcomes
tasks_started == in_flight \cup tasks_finished \cup died

\* the results solve_one returned that the driver has not folded: the tasks they
\* belong to, and the result of one of them
tasks_returned == {r.task : r \in returned}
returned_of(task) == CHOOSE r \in returned : r.task = task

\* the workers that hold a task: it is fetched and its result is not handed over;
\* the pool puts a new worker in the place of one whose process has ended
busy_workers == fetched - (games_solved + Len(outqueue) + Cardinality(died))

\* a worker of the pool that holds no task fetches the next task of the list
PoolFetch ==
    /\ pc = "running" /\ driver \in PoolDrivers
    /\ fetched < Len(bit_strings)
    /\ busy_workers < workers
    /\ fetched' = fetched + 1
    /\ UNCHANGED <<pc, parseVars, argVars, rngVars, graphVars, energyCheckVars, parityCheckVars,
                   bit_strings, bit_string_set, dispatched, in_flight, returned, outcomes,
                   tmp_dir, outqueue, died, foldVars, logVars>>

\* solve_one of a task a worker holds, up to the call of the solver: the instance
\* of the task is written to its temporary file; the workers run at their own pace,
\* so the tasks fetched are written in any order
PoolDispatch ==
    /\ pc = "running" /\ driver \in PoolDrivers
    /\ \E task \in tasks_taken \ tasks_started :
         LET bit_string == bit_strings[task]
         IN  /\ dispatched' = Append(dispatched, bit_string)
             /\ in_flight' = in_flight \cup {task}
             /\ tmp_dir' = dict_set(tmp_dir, tmp_file(bit_string),
                                    replace_players_in_json(game_data, bit_string))
    /\ UNCHANGED <<pc, parseVars, argVars, rngVars, graphVars, energyCheckVars, parityCheckVars,
                   bit_strings, bit_string_set, returned, outcomes, foldVars, logVars,
                   queueVars>>

\* a solver started on a file that is not there fails
MissingFileRun == SolverRun(1, <<>>, 1)

\* solve_one from the call of the solver on: what it returns for a run of the
\* solver; exited: parse_solver_output left it with a SystemExit, nothing is returned
solve_one(bit_string, run) ==
    IF run.returncode = 0
    THEN [bit_string |-> bit_string, agg_value |-> parse_solver_output(run.output).value,
          elapsed_ms |-> run.elapsed_ms, returncode |-> run.returncode,
          exited |-> parse_solver_output(run.output).raised]
    ELSE [bit_string |-> bit_string, agg_value |-> 0,
          elapsed_ms |-> 0, returncode |-> run.returncode, exited |-> FALSE]

\* a worker's solver runs on the temporary file of its task, and solve_one returns
\* (bit_string, agg_value, elapsed_ms, solver_output) to the driver; fpraas-energy.py
\* removes the file (in its finally clause). A SystemExit out of parse_solver_output
\* leaves solve_one and ends the worker process: nothing is returned for the task
WorkerReturn ==
    /\ pc = "running" /\ driver \in PoolDrivers
    /\ \E task \in in_flight, some_run \in PoolRuns :
         LET bit_string == bit_strings[task]
             name == tmp_file(bit_string)
             present == name \in DOMAIN tmp_dir
             run == IF present THEN some_run ELSE MissingFileRun
             result == solve_one(bit_string, run)
         IN  /\ in_flight' = in_flight \ {task}
             /\ IF result.exited
                THEN /\ died' = died \cup {task}
                     /\ UNCHANGED <<returned, outcomes>>
                ELSE /\ returned' = returned \cup
                            {[task |-> task, result |-> result,
                              solved |-> IF present THEN <<tmp_dir[name]>> ELSE <<>>]}
                     /\ outcomes' = dict_set(outcomes, task, result.agg_value)
                     /\ died' = died
             /\ tmp_dir' = IF driver = "fpraas_energy" THEN dict_remove(tmp_dir, name)
                           ELSE tmp_dir
             /\ pc' = after_solver(run.returncode)
    /\ UNCHANGED <<parseVars, argVars, rngVars, graphVars, energyCheckVars, parityCheckVars,
                   bit_strings, bit_string_set, dispatched, foldVars, logVars,
                   fetched, outqueue>>

\* a worker whose solve_one has returned puts the result on the result queue of the
\* pool, and is free for its next task
PoolHandOver ==
    /\ pc = "running" /\ driver \in PoolDrivers
    /\ \E task \in tasks_returned \ Range(outqueue) :
         outqueue' = Append(outqueue, task)
    /\ UNCHANGED <<pc, parseVars, argVars, rngVars, graphVars, energyCheckVars, parityCheckVars,
                   bit_strings, bit_string_set, dispatched, in_flight, returned, outcomes,
                   tmp_dir, fetched, died, foldVars, logVars>>

\* compute-parallel-energy.py, one turn of the loop over imap_unordered: the result
\* at the head of the result queue is folded in and its lines are written to the
\* log and flushed
FoldParallelEnergy ==
    /\ pc = "running" /\ driver = "parallel_energy"
    /\ outqueue # <<>>
    /\ LET result == returned_of(Head(outqueue)).result
       IN  /\ total_aggregated' = accumulate(total_aggregated, result.agg_value)
           /\ total_time_ms' = total_time_ms + result.elapsed_ms
           /\ last_trial' = [returncode |-> result.returncode, agg_value |-> result.agg_value]
           /\ logf' = Append(logf, [bit_string |-> result.bit_string,
                                    agg_value |-> result.agg_value])
    /\ flushed' = Len(logf')
    /\ games_solved' = games_solved + 1
    /\ returned' = returned \ {returned_of(Head(outqueue))}
    /\ outqueue' = Tail(outqueue)
    /\ UNCHANGED <<pc, parseVars, argVars, rngVars, graphVars, energyCheckVars, parityCheckVars, bit_strings,
                   bit_string_set, dispatched, in_flight, outcomes, tmp_dir, progress,
                   fetched, died>>

\* fpraas-energy.py, one turn of the loop over enumerate(imap_unordered, 1): the
\* result at the head of the result queue is folded in; every 1000 results a snapshot is printed, written and flushed
FoldFpraasEnergy ==
    /\ pc = "running" /\ driver = "fpraas_energy"
    /\ outqueue # <<>>
    /\ LET result == returned_of(Head(outqueue)).result
       IN  /\ total_aggregated' = accumulate(total_aggregated, result.agg_value)
           /\ total_time_ms' = total_time_ms + result.elapsed_ms
           /\ last_trial' = [returncode |-> result.returncode, agg_value |-> result.agg_value]
    /\ games_solved' = games_solved + 1
    /\ progress' = snapshot(progress, total_aggregated', games_solved')
    /\ logf' = snapshot(logf, total_aggregated', games_solved')
    /\ flushed' = Len(logf')
    /\ returned' = returned \ {returned_of(Head(outqueue))}
    /\ outqueue' = Tail(outqueue)
    /\ UNCHANGED <<pc, parseVars, argVars, rngVars, graphVars, energyCheckVars, parityCheckVars, bit_strings,
                   bit_string_set, dispatched, in_flight, outcomes, tmp_dir, fetched,
                   died>>

\* every result of the pool is folded: the with blocks end
FinishPool ==
    /\ pc = "running" /\ driver \in PoolDrivers
    /\ games_solved = Len(bit_strings)
    /\ pc' = "done"
    /\ UNCHANGED <<parseVars, argVars, rngVars, graphVars, energyCheckVars, parityCheckVars, trialVars>>

\* compute-exact-probability-reach.py and fpraas-reach.py, main up to the loop
MainReach ==
    /\ pc = "start" /\ driver \in {"exact_reach", "fpraas_reach"}
    /\ LET g == read_graph(input_file)
           priority0_only == v0_reaches_only_priority0(g.vertices, g.edges)
           lasso == has_full_priority0_lasso(g.vertices, g.edges)
       IN  /\ vertices' = g.vertices /\ edges' = g.edges
           /\ v0_priority0_only' = priority0_only /\ v0_lasso' = lasso
           /\ n' = IF driver = "exact_reach" /\ reach_gate_closed(priority0_only, lasso)
                   THEN n
                   ELSE Cardinality(DOMAIN g.vertices)
           /\ pc' = IF reach_gate_closed(priority0_only, lasso)
                    THEN "returned_early"
                    ELSE "running"
    /\ UNCHANGED <<parseVars, argVars, rngVars, game_data, weights, energy_limit, energyCheckVars,
                   v0_has_even_cycle, v0_has_odd_cycle, trialVars>>

\* fpraas-parity.py, main up to the loop; a KeyError of a check ends main
MainFpraasParity ==
    /\ pc = "start" /\ driver = "fpraas_parity"
    /\ LET g == read_graph(input_file)
           even == v0_lasso_even(g.vertices, g.edges)
           odd == v0_lasso_odd(g.vertices, g.edges)
       IN  /\ vertices' = g.vertices /\ edges' = g.edges
           /\ n' = Cardinality(DOMAIN g.vertices)
           /\ v0_has_even_cycle' = even
           /\ v0_has_odd_cycle' = IF even.raised THEN v0_has_odd_cycle ELSE odd
           /\ pc' = IF even.raised \/ odd.raised
                    THEN "raised"
                    ELSE IF parity_gate_closed(even.value, odd.value)
                    THEN "returned_early"
                    ELSE "running"
    /\ UNCHANGED <<parseVars, argVars, rngVars, game_data, weights, energy_limit, energyCheckVars,
                   v0_priority0_only, v0_lasso, trialVars>>

\* compute-exact-probability-reach.py, a turn of the for loop up to the call of
\* the solver: the next string of the product, its instance written
StartExactReach ==
    /\ pc = "running" /\ driver = "exact_reach"
    /\ ~solver_awaited
    /\ games_solved < Pow2(n)
    /\ dispatched' = Append(dispatched, product01(n)[games_solved + 1])
    /\ UNCHANGED <<pc, parseVars, argVars, rngVars, graphVars, energyCheckVars, parityCheckVars,
                   poolVars, foldVars, logVars>>

\* the rest of the turn, with the solver doing one of runs
TrialExactReachWith(runs) ==
    /\ pc = "running" /\ driver = "exact_reach"
    /\ solver_awaited
    /\ \E run \in runs :
         LET agg_value == parse_solver_csv(check_output_or_error(run))
         IN  /\ total_time_ms' = total_time_ms + run.elapsed_ms
             /\ total_aggregated' = accumulate(total_aggregated, agg_value)
             /\ last_trial' = [returncode |-> run.returncode, agg_value |-> agg_value]
             /\ pc' = after_solver(run.returncode)
    /\ games_solved' = games_solved + 1
    /\ progress' = snapshot(progress, total_aggregated', games_solved')
    /\ UNCHANGED <<parseVars, argVars, rngVars, graphVars, energyCheckVars, parityCheckVars, poolVars,
                   dispatched, logf, flushed>>

TrialExactReach == TrialExactReachWith(CsvRuns)

\* fpraas-reach.py and fpraas-parity.py, a turn of "for i in range(args.N)" up to
\* the call of the solver: a random string, drawn afresh, and its instance written
StartSampledDot ==
    /\ pc = "running" /\ driver \in {"fpraas_reach", "fpraas_parity"}
    /\ ~solver_awaited
    /\ games_solved < samples
    /\ \E bit_string \in random_strings(n, generator, Len(drawn), earlier) :
         /\ dispatched' = Append(dispatched, bit_string)
         /\ drawn' = IF run_no > 0 THEN Append(drawn, bit_string) ELSE drawn
    /\ UNCHANGED <<pc, parseVars, argVars, generator, earlier, run_no, graphVars,
                   energyCheckVars, parityCheckVars, poolVars, foldVars, logVars>>

\* the rest of the turn: the verdict is parsed and folded in; every 1000 trials a
\* snapshot is written, flushed and printed
TrialSampledDot ==
    /\ pc = "running" /\ driver \in {"fpraas_reach", "fpraas_parity"}
    /\ solver_awaited
    /\ \E run \in CsvRuns :
         LET solver_output == check_output_or_error(run)
             agg_value == IF driver = "fpraas_reach"
                          THEN parse_solver_csv_sampled_reach(solver_output)
                          ELSE parse_solver_csv(solver_output)
         IN  /\ total_time_ms' = total_time_ms + run.elapsed_ms
             /\ total_aggregated' = accumulate(total_aggregated, agg_value)
             /\ last_trial' = [returncode |-> run.returncode, agg_value |-> agg_value]
             /\ pc' = after_solver(run.returncode)
    /\ games_solved' = games_solved + 1
    /\ logf' = snapshot(logf, total_aggregated', games_solved')
    /\ flushed' = Len(logf')
    /\ progress' = snapshot(progress, total_aggregated', games_solved')
    /\ UNCHANGED <<parseVars, argVars, rngVars, graphVars, energyCheckVars, parityCheckVars,
                   poolVars, dispatched>>

\* the range is exhausted: the with block ends and the totals are printed, the
\* average per sample among them (total_time_ms / games_solved)
FinishSampledDot ==
    /\ pc = "running" /\ driver \in {"fpraas_reach", "fpraas_parity"}
    /\ games_solved = samples
    /\ pc' = IF games_solved = 0 THEN "zero_division" ELSE "done"
    /\ UNCHANGED <<parseVars, argVars, rngVars, graphVars, energyCheckVars, parityCheckVars, trialVars>>

\* the script is run a second time on the same command line: a new process, whose
\* generator is seeded by the system until random.seed is called
Rerun ==
    /\ run_no = 1 /\ pc = "done"
    /\ run_no' = 2
    /\ earlier' = <<[generator |-> generator, drawn |-> drawn, dispatched |-> dispatched]>>
    /\ generator' = <<>> /\ drawn' = <<>>
    /\ pc' = "start"
    /\ game_data' = NoGame /\ vertices' = EmptyDict /\ edges' = EmptyDict
    /\ weights' = EmptyDict /\ n' = 0 /\ energy_limit' = DefaultEnergyLimit
    /\ v0_can_win' = FALSE /\ v0_has_neg_path' = FALSE
    /\ v0_priority0_only' = FALSE /\ v0_lasso' = FALSE
    /\ v0_has_even_cycle' = Returned(FALSE) /\ v0_has_odd_cycle' = Returned(FALSE)
    /\ bit_strings' = <<>> /\ dispatched' = <<>> /\ in_flight' = {} /\ returned' = {}
    /\ bit_string_set' = {} /\ logf' = <<>>
    /\ total_aggregated' = 0 /\ games_solved' = 0
    /\ total_time_ms' = 0 /\ last_trial' = NoTrial
    /\ outcomes' = EmptyDict /\ tmp_dir' = EmptyDict
    /\ fetched' = 0 /\ outqueue' = <<>> /\ died' = {}
    /\ progress' = <<>> /\ flushed' = 0
    /\ UNCHANGED <<parseVars, argVars>>

\* the process is interrupted during the batch: the lines of the log not yet forced
\* to disk are written by the closing of the file, or lost
Interrupt ==
    /\ pc = "running"
    /\ pc' = "interrupted"
    /\ \E kept \in {flushed, Len(logf)} : logf' = SubSeq(logf, 1, kept)
    /\ UNCHANGED <<parseVars, argVars, rngVars, graphVars, energyCheckVars, parityCheckVars, poolVars, dispatched,
                   foldVars, progress, flushed>>

\* ------------------------------------------------------------------ specifications
\* the three energy drivers
EnergyNext ==
    \/ MainEnergy \/ StartExactEnergy \/ TrialExactEnergy \/ FinishExact
    \/ MainFpraasEnergy \/ CollectSample \/ ListSamples
    \/ PoolFetch \/ PoolDispatch \/ WorkerReturn \/ PoolHandOver
    \/ FoldParallelEnergy \/ FoldFpraasEnergy \/ FinishPool

SpecEnergy == DriverInit(EnergyDrivers) /\ [][EnergyNext]_vars

\* the three drivers of DOT games
DotNext ==
    \/ MainReach \/ MainFpraasParity
    \/ StartExactReach \/ TrialExactReach \/ FinishExact
    \/ StartSampledDot \/ TrialSampledDot \/ FinishSampledDot

SpecDot == DriverInit(DotDrivers) /\ [][DotNext]_vars

\* every driver
Next ==
    \/ EnergyNext \/ MainReach \/ MainFpraasParity
    \/ StartExactReach \/ TrialExactReach
    \/ StartSampledDot \/ TrialSampledDot \/ FinishSampledDot

Spec == DriverInit(EnergyDrivers \cup DotDrivers) /\ [][Next]_vars

\* the exhaustive drivers
ExhaustiveDrivers == {"exact_energy", "parallel_energy", "exact_reach"}

ExhaustiveNext ==
    \/ MainEnergy \/ MainReach
    \/ StartExactEnergy \/ TrialExactEnergy \/ StartExactReach \/ TrialExactReach \/ FinishExact
    \/ PoolFetch \/ PoolDispatch \/ WorkerReturn \/ PoolHandOver
    \/ FoldParallelEnergy \/ FinishPool

SpecExhaustive == DriverInit(ExhaustiveDrivers) /\ [][ExhaustiveNext]_vars

\* the sampling drivers
SamplingNext ==
    \/ MainFpraasEnergy \/ CollectSample \/ ListSamples
    \/ PoolFetch \/ PoolDispatch \/ WorkerReturn \/ PoolHandOver
    \/ FoldFpraasEnergy \/ FinishPool
    \/ MainReach \/ MainFpraasParity \/ StartSampledDot \/ TrialSampledDot \/ FinishSampledDot

SpecSampling == DriverInit(SamplingDrivers) /\ [][SamplingNext]_vars

\* the two reachability drivers
ReachDrivers == {"exact_reach", "fpraas_reach"}

ReachNext ==
    \/ MainReach \/ StartExactReach \/ TrialExactReach \/ FinishExact
    \/ StartSampledDot \/ TrialSampledDot \/ FinishSampledDot

SpecReach == DriverInit(ReachDrivers) /\ [][ReachNext]_vars

\* find_nonnegative_lasso called directly, and as the first check of the
\* sequential exhaustive energy driver
LassoCheckNext ==
    \/ CallFindNonnegativeLasso \/ CallExistsNegativeEnergyPath
    \/ MainEnergy \/ StartExactEnergy \/ TrialExactEnergy \/ FinishExact

SpecLassoCheck ==
    (EnergySearchInit \/ DriverInit({"exact_energy"})) /\ [][LassoCheckNext]_vars

\* the drivers that run a pool of workers
PoolNext ==
    \/ MainEnergy \/ MainFpraasEnergy \/ CollectSample \/ ListSamples
    \/ PoolFetch \/ PoolDispatch \/ WorkerReturn \/ PoolHandOver
    \/ FoldParallelEnergy \/ FoldFpraasEnergy \/ FinishPool

SpecPool == DriverInit(PoolDrivers) /\ [][PoolNext]_vars

\* a sequential exhaustive, a pooled sampling and a sequential sampling driver
CountsNext ==
    \/ MainEnergy \/ StartExactEnergy \/ TrialExactEnergy \/ FinishExact
    \/ MainFpraasEnergy \/ CollectSample \/ ListSamples
    \/ PoolFetch \/ PoolDispatch \/ WorkerReturn \/ PoolHandOver
    \/ FoldFpraasEnergy \/ FinishPool
    \/ MainReach \/ StartSampledDot \/ TrialSampledDot \/ FinishSampledDot

SpecCounts ==
    DriverInit({"exact_energy", "fpraas_energy", "fpraas_reach"}) /\ [][CountsNext]_vars

\* the sampled energy driver and the sampled parity driver
SampledFailuresNext ==
    \/ MainFpraasEnergy \/ CollectSample \/ ListSamples
    \/ PoolFetch \/ PoolDispatch \/ WorkerReturn \/ PoolHandOver
    \/ FoldFpraasEnergy \/ FinishPool
    \/ MainFpraasParity \/ StartSampledDot \/ TrialSampledDot \/ FinishSampledDot

\* the steps of a batch that runs: those of the pool's workers and of the loops
SampledBatchSteps ==
    \/ PoolFetch \/ PoolDispatch \/ WorkerReturn \/ PoolHandOver
    \/ FoldFpraasEnergy \/ FinishPool
    \/ StartSampledDot \/ TrialSampledDot \/ FinishSampledDot

\* the processes of a batch keep running: a step of the batch that can be taken is
\* taken
SpecSampledFailures ==
    /\ DriverInit({"fpraas_energy", "fpraas_parity"}) /\ [][SampledFailuresNext]_vars
    /\ WF_vars(SampledBatchSteps)

\* the sampled energy driver with its --interval option
IntervalNext ==
    \/ MainFpraasEnergy \/ CollectSample \/ ListSamples
    \/ PoolFetch \/ PoolDispatch \/ WorkerReturn \/ PoolHandOver
    \/ FoldFpraasEnergy \/ FinishPool

SpecIntervalRuns == IntervalInit /\ [][IntervalNext]_vars

\* the sequential exhaustive drivers on the long games, interrupted at any trial
LongTrialExactEnergy == TrialExactEnergyWith(LongEnergyRuns)
LongTrialExactReach == TrialExactReachWith(LongCsvRuns)

LongBatchNext ==
    \/ MainEnergy \/ MainReach
    \/ StartExactEnergy \/ LongTrialExactEnergy \/ StartExactReach \/ LongTrialExactReach
    \/ FinishExact \/ Interrupt

SpecLongBatch == LongInit /\ [][LongBatchNext]_vars

\* the sampled parity driver
ParityDriverNext == MainFpraasParity \/ StartSampledDot \/ TrialSampledDot \/ FinishSampledDot

SpecParityDriver == DriverInit({"fpraas_parity"}) /\ [][ParityDriverNext]_vars

\* fpraas-energy.py up to the end of its sampling loop. The interpreter keeps
\* running (weak fairness of main and of the loop's exit), and the random draws
\* are fair: as long as a string is missing from the set, one that is missing is
\* eventually drawn.
CollectNext == MainFpraasEnergy \/ CollectSample \/ ListSamples

SpecCollect ==
    /\ CollectInit /\ [][CollectNext]_vars
    /\ WF_vars(MainFpraasEnergy)
    /\ WF_vars(CollectSample /\ bit_string_set' # bit_string_set)
    /\ WF_vars(ListSamples)

\* the sampling drivers on files that are not well formed
SpecMalformed == MalformedInit /\ [][SampledFailuresNext]_vars

\* the sampling drivers, each run twice on the same command line
SeededNext == SamplingNext \/ Rerun

SpecSeeded == SeededInit /\ [][SeededNext]_vars

\* ------------------------------------------------------------------ claims
Distinct(seq) == \A i, j \in 1..Len(seq) : i # j => seq[i] # seq[j]

\* C1: in every energy driver (sequential, parallel, sampled) a trial is dispatched
\* only if find_nonnegative_lasso and exists_negative_energy_path both returned
\* true on the loaded graph.
C1_TrialsOnlyBehindEnergyGate ==
    (driver \in EnergyDrivers /\ dispatched # <<>>) =>
        /\ find_nonnegative_lasso(edges, weights, StartVertex, DefaultEnergyLimit)
        /\ exists_negative_energy_path(edges, weights, StartVertex, DefaultEnergyLimit)

\* v0 has priority 0 and reaches no vertex other than itself
V0AloneWithPriority0 ==
    /\ 0 \in DOMAIN vertices /\ vertices[0] = 0
    /\ Reachable(vertices, edges, 0) = {0}

\* C2: in the reachability drivers a trial is dispatched only if not every vertex
\* reachable from v0 has priority 0 and a lasso of priority-0 vertices from v0
\* exists; when v0 has priority 0 and reaches only itself, main returns early with
\* zero trials.
C2_ReachTrialsOnlyBehindGate ==
    (driver \in ReachDrivers /\ pc # "start") =>
        /\ dispatched # <<>> =>
              /\ ~OnlyPriority0Reachable(vertices, edges)
              /\ Priority0LassoExists(vertices, edges)
        /\ V0AloneWithPriority0 =>
              pc = "returned_early" /\ dispatched = <<>> /\ games_solved = 0

C2_Witness ==
    /\ driver = "fpraas_reach" /\ dispatched # <<>>
    /\ ~v0_priority0_only /\ v0_lasso

\* C3: find_nonnegative_lasso returns true if and only if a path from start within
\* [0, L] ends by revisiting one of its vertices with a revisited cycle that is
\* nonnegative when re-summed from 0.
C3_LassoIffExists ==
    LassoCalled =>
        (v0_can_win <=> LassoExists(edges, weights, StartVertex, energy_limit))

\* C4: when no path from v0 that keeps the energy nonnegative returns to a vertex
\* of its own, find_nonnegative_lasso returns false, and the sequential exhaustive
\* driver returns early with zero trials.
C4_NoLassoNoTrials ==
    /\ LassoCalled =>
          (~NonnegativeRevisitExists(edges, weights, StartVertex) => ~v0_can_win)
    /\ (driver = "exact_energy" /\ pc # "start"
           /\ ~NonnegativeRevisitExists(edges, weights, StartVertex)) =>
          /\ ~v0_can_win
          /\ pc = "returned_early" /\ dispatched = <<>> /\ games_solved = 0

C4_Witness ==
    /\ driver = "exact_energy" /\ pc = "returned_early"
    /\ DOMAIN edges # {}
    /\ ~NonnegativeRevisitExists(edges, weights, StartVertex)
    /\ ~v0_can_win

\* C5 as stated: on the game v0 -> v1 (-1), v1 -> v0 (+2), find_nonnegative_lasso
\* from v0 returns true.
C5_Game5LassoFound == (LassoCalled /\ IsGame5) => v0_can_win

\* C5 as amended: on the game v0 -> v1 (-1), v1 -> v0 (+2), find_nonnegative_lasso
\* from v0 returns false, the only edge out of v0 taking the energy below 0.
C5_Game5NoLasso == (LassoCalled /\ IsGame5) => ~v0_can_win

C5_Witness == LassoCalled /\ IsGame5 /\ energy_limit = 3 /\ ~v0_can_win

\* C6: exists_negative_energy_path returns true if and only if some path from
\* start within [0, L] is followed by one edge that takes the energy below 0; no
\* cycle is needed, and it is true on the game v0 -> v1 (-1), v1 -> v0 (+2).
C6_NegPathIffNegativeStep ==
    NegCalled =>
        /\ v0_has_neg_path <=> NegativeStepExists(edges, weights, StartVertex, energy_limit)
        /\ IsGame5 => v0_has_neg_path

C6_Witness ==
    /\ NegCalled /\ v0_has_neg_path
    /\ edges = (0 :> <<1>>) /\ weights = (<<0, 1>> :> -1)

\* C7: on a graph whose edges mention declared vertices only,
\* find_lasso_highest_priority returns true for parity p if and only if some simple
\* cycle reachable from v0 has a highest priority of parity p.
C7_LassoParityIffCycle ==
    (ParityCalled /\ WellFormed(vertices, edges)) =>
        /\ v0_has_even_cycle = Returned(CycleOfParityExists(vertices, edges, 0))
        /\ v0_has_odd_cycle = Returned(CycleOfParityExists(vertices, edges, 1))

C7_Witness ==
    /\ ParityCalled /\ WellFormed(vertices, edges)
    /\ ~v0_has_even_cycle.value /\ v0_has_odd_cycle.value
    /\ \E v \in DOMAIN vertices : vertices[v] = 0

\* C8: v0_reaches_only_priority0 returns true if and only if v0 is declared with
\* priority 0 and every vertex reachable from v0 is declared with priority 0.
C8_ReachesOnlyPriority0Iff ==
    ParityCalled => (v0_priority0_only <=> OnlyPriority0Reachable(vertices, edges))

C8_Witness ==
    /\ ParityCalled /\ v0_priority0_only
    /\ Cardinality(Reachable(vertices, edges, 0)) > 1

\* character j of the length-len binary numeral of k, most significant first
BinaryDigit(k, len, j) == (k \div Pow2(len - j)) % 2

\* the strings the driver has handed out so far, in the order it handed them out:
\* a sequential driver starts the trial of a string as it produces it; a pool is
\* fed the list in its order, and its workers have taken the first tasks of it
handed_out ==
    IF driver \in PoolDrivers
    THEN SubSeq(bit_strings, 1, fetched)
    ELSE dispatched

\* C9: an exhaustive driver whose gate passed hands out the strings of length n in
\* lexicographic order from all-0 to all-1, the trial of each is started once and
\* of no other string, and it ends with 2^n of them dispatched and folded.
C9_ExhaustiveLexOrder ==
    (driver \in ExhaustiveDrivers /\ pc \in {"running", "done"}) =>
        /\ Len(handed_out) <= Pow2(n)
        /\ \A i \in 1..Len(handed_out) :
              /\ Len(handed_out[i]) = n
              /\ \A j \in 1..n : handed_out[i][j] = BinaryDigit(i - 1, n, j)
        /\ Distinct(dispatched)
        /\ Range(dispatched) \subseteq Range(handed_out)
        /\ pc = "done" => Len(dispatched) = Pow2(n) /\ games_solved = Pow2(n)

C9_Witness ==
    /\ driver = "parallel_energy" /\ pc = "done"
    /\ n > 1 /\ games_solved = Pow2(n) /\ Len(dispatched) = Pow2(n)

\* C10: a sampling driver asked for k < 2^n samples dispatches exactly k
\* assignments, no two of them equal.
C10_SamplesDistinct ==
    (driver \in SamplingDrivers /\ pc \in {"running", "done"} /\ samples < Pow2(n)) =>
        /\ Distinct(dispatched)
        /\ pc = "done" => Len(dispatched) = samples

\* C11: a sampling driver asked for k >= 2^n samples dispatches no trial (it fails
\* with a ParameterError first).
C11_OversamplingRefused ==
    (driver \in SamplingDrivers /\ pc # "start" /\ samples >= Pow2(n)) =>
        dispatched = <<>> /\ pc # "done"

\* C12: the trial folded last contributed 0 to the won count if its solver process
\* exited non-zero, whatever the process wrote.
C12_FailedTrialCountsZero ==
    last_trial.returncode # 0 => last_trial.agg_value = 0

\* C13: in the sampling drivers a batch whose trials have begun is never ended by a
\* trial (a failed solver process or an unreadable verdict included) and runs to
\* its completion, and at the end the number of trials counted is the number
\* asked for.
C13_FailuresLeaveBatchRunning ==
    /\ [](dispatched # <<>> => pc \in {"running", "done"})
    /\ [](pc = "done" => games_solved = samples /\ Len(dispatched) = samples)
    /\ (dispatched # <<>>) ~> (pc = "done")

\* the fold of a single thread over the outcomes of the tasks 1..count, in the
\* order of the task list: (won, total)
RECURSIVE sequential_fold(_, _)
sequential_fold(values, count) ==
    IF count = 0
    THEN <<0, 0>>
    ELSE LET before == sequential_fold(values, count - 1)
         IN  <<before[1] + values[count], before[2] + 1>>

\* C14: when a driver that runs a pool of workers is done, its (won, total) is the
\* single-threaded fold of the outcomes of its tasks, whatever the number of workers
\* and the order in which the tasks completed.
C14_ParallelFoldIsSequentialFold ==
    (driver \in PoolDrivers /\ pc = "done") =>
        <<total_aggregated, games_solved>> = sequential_fold(outcomes, Len(bit_strings))

\* two workers or more, the task dispatched second was folded first, and some
\* trials were won and some were not
C14_Witness ==
    /\ driver = "parallel_energy" /\ pc = "done" /\ workers >= 2
    /\ Len(logf) >= 2 /\ logf[1].bit_string = dispatched[2]
    /\ total_aggregated > 0 /\ total_aggregated < games_solved

\* the number of assignments the batch is to run
assignments_to_run == IF driver \in SamplingDrivers THEN samples ELSE Pow2(n)

\* C15: always 0 <= won <= total <= the number of assignments to run; every step
\* that folds a trial raises total by exactly 1 and won by 0 or 1, no other step
\* changes the counts, and the cumulative solver time never decreases.
C15_CountsBoundedAndMonotone ==
    /\ [](/\ 0 <= total_aggregated
          /\ total_aggregated <= games_solved
          /\ games_solved <= assignments_to_run)
    /\ [][/\ games_solved' \in {games_solved, games_solved + 1}
          /\ total_aggregated' \in {total_aggregated, total_aggregated + 1}
          /\ games_solved' = games_solved => total_aggregated' = total_aggregated
          /\ total_time_ms' >= total_time_ms]_vars

\* an exhaustive batch is done, some of its trials were won and some were not
C15_Witness ==
    /\ driver = "exact_energy" /\ pc = "done"
    /\ games_solved = Pow2(n) /\ games_solved >= 2
    /\ total_aggregated > 0 /\ total_aggregated < games_solved
    /\ total_time_ms > 0

\* C16: whenever the number of trials folded is a multiple of the configured
\* interval, the last line of the log and the last line of the progress channel
\* are the snapshot of the current (won, total).
C16_SnapshotAtEveryInterval ==
    (pc = "running" /\ games_solved > 0 /\ games_solved % interval = 0) =>
        /\ logf # <<>>
        /\ logf[Len(logf)] = [won |-> total_aggregated, total |-> games_solved]
        /\ progress # <<>>
        /\ progress[Len(progress)] = [won |-> total_aggregated, total |-> games_solved]

\* C17: when a batch that ran trials is done, the last line of the log is the final
\* (won, total), and total is the number of trials run.
C17_FinalSnapshotAtDone ==
    (pc = "done" /\ games_solved > 0) =>
        /\ logf # <<>>
        /\ logf[Len(logf)] = [won |-> total_aggregated, total |-> games_solved]
        /\ games_solved = Len(dispatched)

\* C18: when a batch is interrupted after m trials, the log holds a snapshot for
\* every multiple of the interval up to m.
C18_SnapshotsSurviveInterrupt ==
    pc = "interrupted" =>
        \A k \in 1..games_solved :
            k % interval = 0 => \E i \in 1..Len(logf) : logf[i].total = k

\* C19: once a driver of JSON games has read its game, the game it holds in memory
\* stays the game of the input file, whatever trials it dispatches.
C19_BaseGraphUnchanged ==
    (driver \in EnergyDrivers /\ pc \in {"running", "done"}) =>
        game_data = read_energy_game(input_file).game_data

\* C20: in the drivers that run a pool of workers, no two trials in flight have the
\* same temporary file, and the instance the solver of a trial read is the instance
\* of that trial's own assignment.
C20_OwnTemporaryInstance ==
    driver \in PoolDrivers =>
        /\ \A t1 \in in_flight : \A t2 \in in_flight :
               t1 # t2 => tmp_file(bit_strings[t1]) # tmp_file(bit_strings[t2])
        /\ \A r \in returned :
               r.solved = <<replace_players_in_json(game_data, r.result.bit_string)>>

\* two trials are in flight while the solver of a third has returned
C20_Witness ==
    /\ driver \in PoolDrivers /\ pc = "running"
    /\ Cardinality(in_flight) >= 2
    /\ \E r \in returned : r.solved # <<>>

\* the vertices a DOT file declares, the node ids a JSON game declares
declared(file) ==
    IF "lines" \in DOMAIN file
    THEN {file.lines[i].vertex : i \in {j \in 1..Len(file.lines) : file.lines[j].kind = "vertex"}}
    ELSE {file.nodes[i].id : i \in 1..Len(file.nodes)}

\* a line of a DOT file is neither a declaration nor an edge, or an edge of the file
\* has an end that is not declared
malformed(file) ==
    IF "lines" \in DOMAIN file
    THEN \E i \in 1..Len(file.lines) :
            \/ file.lines[i].kind = "other"
            \/ /\ file.lines[i].kind = "edge"
               /\ {file.lines[i].source, file.lines[i].target} \ declared(file) # {}
    ELSE \E i \in 1..Len(file.edges) :
            {file.edges[i].source, file.edges[i].target} \ declared(file) # {}

\* C21: on an input that is not well formed the driver does not get past loading:
\* no feasibility check is run and no trial is dispatched.
C21_MalformedInputRefused ==
    malformed(input_file) =>
        /\ pc \in {"start", "malformed_input_error"}
        /\ dispatched = <<>>

\* C22: when the second of two runs of a sampling driver on the same command line
\* (graph, sample count, seed) is done, it has drawn the strings the first run
\* drew, and so dispatched the same assignments.
C22_SameSeedSameAssignments ==
    (run_no = 2 /\ pc = "done") =>
        /\ drawn = earlier[1].drawn
        /\ Range(dispatched) = Range(earlier[1].dispatched)

\* the number of the first line of a CSV text that starts with "v0", 0 if none does
first_v0_line(text) ==
    IF \E i \in 1..Len(text) : text[i].v0
    THEN CHOOSE i \in 1..Len(text) : text[i].v0 /\ \A j \in 1..(i - 1) : ~text[j].v0
    ELSE 0

\* 1 if the third value of the first "v0" line is 1, and 0 otherwise
third_value_is_1(text) ==
    LET i == first_v0_line(text)
    IN  IF i > 0 /\ Len(text[i].parts) >= 3 /\ strip(text[i].parts[3]) = "1"
        THEN 1
        ELSE 0

\* C23: parse_solver_csv returns 1 if the third comma-separated value of the line
\* that starts with "v0" is 1, and 0 otherwise, also when there is no such line.
C23_CsvOutcomeIsThirdValue ==
    pc = "csv_parsed_both" =>
        /\ agg_values["exact_reach"] = third_value_is_1(solver_text)
        /\ agg_values["fpraas_reach"] = third_value_is_1(solver_text)

\* the number of the first line of an energy solver's text that is labelled "The
\* winning region is:" and carries a mapping in braces, 0 if there is none
first_region_line(text) ==
    IF \E i \in 1..Len(text) : text[i].labelled /\ text[i].braces
    THEN CHOOSE i \in 1..Len(text) :
            /\ text[i].labelled /\ text[i].braces
            /\ \A j \in 1..(i - 1) : ~(text[j].labelled /\ text[j].braces)
    ELSE 0

\* C24: parse_solver_output raises nothing and returns 1 or 0, and 1 exactly when
\* the first labelled line with a mapping in braces decodes to a mapping that gives
\* vertex 0 a value >= 0.
C24_OutcomeIsFirstRegionLine ==
    pc = "output_parsed" =>
        LET i == first_region_line(solver_text)
            parsed == agg_values["parse_solver_output"]
        IN  /\ ~parsed.raised
            /\ parsed.value \in {0, 1}
            /\ parsed.value = 1 <=>
                  /\ i > 0
                  /\ solver_text[i].decodes
                  /\ 0 \in DOMAIN solver_text[i].region
                  /\ solver_text[i].region[0] >= 0

\* C25: every feasibility search (find_nonnegative_lasso,
\* exists_negative_energy_path, find_lasso_highest_priority,
\* has_full_priority0_lasso, v0_reaches_only_priority0) terminates on every
\* finite graph, positive-weight cycles and self-loops included, and while an
\* energy search runs every state it has explored (on its stack or in
\* visited_states) has an energy in 0 .. energy_limit.
explored_energies ==
    IF pc = "lasso_loop"
    THEN {search_stack[i].energy : i \in 1..Len(search_stack)}
             \cup {s[2] : s \in search_visited}
    ELSE IF pc = "neg_loop"
    THEN {search_stack[i][2] : i \in 1..Len(search_stack)} \cup {s[2] : s \in search_visited}
    ELSE {}

C25_SearchesTerminate ==
    /\ [](\A e \in explored_energies : 0 <= e /\ e <= energy_limit)
    /\ <>(pc = "returned")

\* exists_negative_energy_path has climbed a positive self-loop of vertex 0 up
\* to the ceiling and has nothing left to explore
C25_Witness ==
    /\ pc = "neg_loop"
    /\ <<0, 0>> \in DOMAIN weights /\ weights[<<0, 0>>] > 0
    /\ <<StartVertex, energy_limit>> \in search_visited
    /\ search_stack = <<>>

\* ------------------------------------------------------------------ direct calls of the instance writers
\* a base graph file, n as main computes it, and one string of length n
MaterialiseInit ==
    /\ driver = "materialise"
    /\ samples = 0 /\ workers = 0
    /\ interval = SnapshotInterval /\ seed = DefaultSeed /\ run_no = 0
    /\ vertices = EmptyDict /\ edges = EmptyDict /\ weights = EmptyDict
    /\ energy_limit = DefaultEnergyLimit
    /\ \/ /\ pc = "dot_args"
          /\ input_file \in DotFiles \cup TwoCycleDotFiles \cup MalformedDotFiles
          /\ game_data = NoGame
          /\ n = Cardinality(DOMAIN read_graph(input_file).vertices)
       \/ /\ pc = "json_args"
          /\ input_file \in EnergyFiles
          /\ game_data = read_energy_game(input_file).game_data
          /\ n = Cardinality(DOMAIN read_energy_game(input_file).vertices)
    /\ bit_strings \in {<<b>> : b \in BitStrings(n)}
    /\ NoChecks /\ NoTexts
    /\ dispatched = <<>> /\ in_flight = {} /\ returned = {}
    /\ bit_string_set = {} /\ logf = <<>>
    /\ total_aggregated = 0 /\ games_solved = 0
    /\ total_time_ms = 0 /\ last_trial = NoTrial
    /\ outcomes = EmptyDict /\ tmp_dir = EmptyDict
    /\ fetched = 0 /\ outqueue = <<>> /\ died = {}
    /\ progress = <<>> /\ flushed = 0
    /\ generator = <<>> /\ drawn = <<>> /\ earlier = <<>>

\* replace_players_in_dot(args.input_file, tmp_file, bit_string)
CallReplacePlayersInDot ==
    /\ pc = "dot_args"
    /\ dispatched' = Append(dispatched, bit_strings[1])
    /\ tmp_dir' = dict_set(tmp_dir, tmp_file(bit_strings[1]),
                           replace_players_in_dot(input_file, bit_strings[1]))
    /\ pc' = "materialised"
    /\ UNCHANGED <<parseVars, argVars, rngVars, graphVars, energyCheckVars, parityCheckVars,
                   bit_strings, bit_string_set, in_flight, returned, outcomes, foldVars,
                   logVars,
                   queueVars>>

\* replace_players_in_json(base_game, bit_string, tmp_filename)
CallReplacePlayersInJson ==
    /\ pc = "json_args"
    /\ dispatched' = Append(dispatched, bit_strings[1])
    /\ tmp_dir' = dict_set(tmp_dir, tmp_file(bit_strings[1]),
                           replace_players_in_json(game_data, bit_strings[1]))
    /\ pc' = "materialised"
    /\ UNCHANGED <<parseVars, argVars, rngVars, graphVars, energyCheckVars, parityCheckVars,
                   bit_strings, bit_string_set, in_flight, returned, outcomes, foldVars,
                   logVars,
                   queueVars>>

MaterialiseNext == CallReplacePlayersInDot \/ CallReplacePlayersInJson

SpecMaterialise == MaterialiseInit /\ [][MaterialiseNext]_vars

\* C26: the instance written for a bit string b of length n gives every
\* vertex i the owner b[i] and has the vertices, priorities, edges and edge
\* effects of the base graph: a DOT instance reads back (read_graph) as the base
\* file does, its vertex lines carry player b[i], its other lines are the base
\* file's; a JSON instance reads back (read_energy_game) with owner b[i] for
\* every node i and the base file's edges and weights.
C26_InstanceIsBaseWithOwners ==
    (pc = "materialised") =>
        LET b == dispatched[1]
            instance == tmp_dir[tmp_file(b)]
        IN  IF "lines" \in DOMAIN input_file
            THEN /\ read_graph(instance) = read_graph(input_file)
                 /\ Len(instance.lines) = Len(input_file.lines)
                 /\ \A i \in 1..Len(instance.lines) :
                       IF input_file.lines[i].kind = "vertex"
                       THEN /\ instance.lines[i].kind = "vertex"
                            /\ instance.lines[i].vertex = input_file.lines[i].vertex
                            /\ instance.lines[i].priority = input_file.lines[i].priority
                            /\ instance.lines[i].player = b[instance.lines[i].vertex + 1]
                       ELSE instance.lines[i] = input_file.lines[i]
            ELSE /\ read_energy_game(instance).vertices = [id \in 0..(n - 1) |-> b[id + 1]]
                 /\ read_energy_game(instance).edges = read_energy_game(input_file).edges
                 /\ read_energy_game(instance).weights = read_energy_game(input_file).weights
                 /\ instance.edges = input_file.edges

\* a JSON instance of two nodes with an edge was written for the string "01"
C26_Witness ==
    /\ pc = "materialised"
    /\ "nodes" \in DOMAIN input_file
    /\ Len(input_file.nodes) = 2 /\ input_file.edges # <<>>
    /\ dispatched = << <<0, 1>> >>
    /\ read_energy_game(tmp_dir[tmp_file(<<0, 1>>)]).vertices = (0 :> 0) @@ (1 :> 1)

\* C27: fpraas-parity.py dispatches trials only if v0 reaches a simple cycle
\* whose highest priority is even and one whose highest priority is odd; on any
\* other game main returns early with no trial dispatched and nothing logged.
BothParitiesReachable ==
    /\ CycleOfParityExists(vertices, edges, 0)
    /\ CycleOfParityExists(vertices, edges, 1)

C27_ParityTrialsOnlyBehindGate ==
    (driver = "fpraas_parity" /\ pc # "start") =>
        /\ dispatched # <<>> => BothParitiesReachable
        /\ ~BothParitiesReachable =>
              pc = "returned_early" /\ dispatched = <<>> /\ games_solved = 0 /\ logf = <<>>

\* every sample of a batch was dispatched on a game with cycles of both parities
C27_Witness ==
    /\ driver = "fpraas_parity" /\ pc = "done"
    /\ BothParitiesReachable
    /\ samples = MaxSamples /\ Len(dispatched) = samples

\* C28: in the drivers that run a pool, a step of a worker (a task is fetched,
\* starts, returns or has its result handed over) changes neither the aggregate, the counters nor the log, and
\* touches no temporary file but the one of its own task; all a worker hands
\* over is the result of its task, added to the results the driver will fold (a
\* worker whose process its task ends hands over nothing).
\* So the aggregate and the log change only in steps of the driver.
worker_step_of(task) ==
    \/ fetched = task - 1 /\ fetched' = task
    \/ task \notin in_flight /\ in_flight' = in_flight \cup {task}
    \/ task \in in_flight /\ in_flight' = in_flight \ {task}
    \/ outqueue' = Append(outqueue, task)

Collecting == driver = "fpraas_energy" /\ pc = "collecting"

C29_CollectionLoop ==
    /\ [](Cardinality(bit_string_set) <= Pow2(n))
    /\ []((driver = "fpraas_energy" /\ pc = "running") =>
             Cardinality(bit_string_set) = samples /\ Len(bit_strings) = samples)
    /\ [](Collecting /\ samples <= Pow2(n) => <>(pc = "running"))
    /\ [](Collecting /\ samples > Pow2(n) => [](pc = "collecting"))

\* the loop was left holding every assignment of the game: samples = 2^n
C29_Witness ==
    /\ driver = "fpraas_energy" /\ pc = "running"
    /\ n >= 1 /\ samples = Pow2(n)
    /\ bit_string_set = BitStrings(n)

\* C30: parse_solver_csv of compute-exact-probability-reach.py and
\* parse_solver_csv of fpraas-reach.py return the same outcome on every solver
\* text, texts whose "v0" record has only 3 or 4 fields included.
C30_CsvParsersAgree ==
    (pc = "csv_parsed_both") => agg_values["exact_reach"] = agg_values["fpraas_reach"]

====
